---- MODULE Spec2Model ----
(***************************************************************************)
(* Tool-invocation gateway of astron-agent (plugin/link).                  *)
(*                                                                         *)
(*   SpecMcp   one invocation of an MCP entry point of mcp_server.py       *)
(*             (tool_list over a batch of targets, or call_tool), with the *)
(*             security gate, the scoped transport / session, the phase    *)
(*             errors, scope exit (which may itself raise) and task        *)
(*             cancellation at the suspension points.                      *)
(*   SpecHttp  one http_run invocation of execution_server.py, from the    *)
(*             request validation to the response envelope.                *)
(*                                                                         *)
(* Telemetry (Meter / Kafka) is guarded by OTLP_ENABLE_KEY, which defaults *)
(* to "0"; both specifications run with it off, so the telemetry calls of  *)
(* the handlers are no-ops and are left out of the actions.                *)
(***************************************************************************)
EXTENDS Integers, Sequences, FiniteSets, TLC

(***************************************************************************)
(* Bounds                                                                  *)
(***************************************************************************)
\* most targets (server ids plus server urls) in one tool_list request
MaxTargets == 2

(***************************************************************************)
(* ErrCode members used by mcp_server.py (plugin.link.utils.errors.code)   *)
(***************************************************************************)
SUCCESSES == "SUCCESSES"
MCP_SERVER_LOCAL_URL_ERR == "MCP_SERVER_LOCAL_URL_ERR"
MCP_SERVER_BLACKLIST_URL_ERR == "MCP_SERVER_BLACKLIST_URL_ERR"
MCP_SERVER_CONNECT_ERR == "MCP_SERVER_CONNECT_ERR"
MCP_SERVER_SESSION_ERR == "MCP_SERVER_SESSION_ERR"
MCP_SERVER_INITIAL_ERR == "MCP_SERVER_INITIAL_ERR"
MCP_SERVER_TOOL_LIST_ERR == "MCP_SERVER_TOOL_LIST_ERR"
MCP_SERVER_CALL_TOOL_ERR == "MCP_SERVER_CALL_TOOL_ERR"
MCP_SERVER_ID_EMPTY_ERR == "MCP_SERVER_ID_EMPTY_ERR"
MCP_CRUD_OPERATION_FAILED_ERR == "MCP_CRUD_OPERATION_FAILED_ERR"
MCP_SERVER_NOT_FOUND_ERR == "MCP_SERVER_NOT_FOUND_ERR"
MCP_SERVER_URL_EMPTY_ERR == "MCP_SERVER_URL_EMPTY_ERR"

(***************************************************************************)
(* The environment of one invocation: urls, the access interceptor and the *)
(* tool registry.                                                          *)
(***************************************************************************)
UrlPub == "http://mcp.example.com/sse"
UrlLocal == "http://127.0.0.1:8080/sse"
UrlBlack == "http://blocked.example.com/sse"
\* a private address that the configured segment blacklist also names
UrlLocalBlack == "http://10.0.0.5/sse"
UrlBlank == "  "

RealUrls == {UrlPub, UrlLocal, UrlBlack, UrlLocalBlack}

\* access_interceptor.is_local_url: loopback, link-local and private targets
is_local_url(url) == url \in {UrlLocal, UrlLocalBlack}

\* access_interceptor.is_in_blacklist: the configured deny-list
is_in_blacklist(url) == url \in {UrlBlack, UrlLocalBlack}

\* the test `not url` in place of `not url.strip()`
strip_nothing(url) == url

\* str.strip() of a url, as far as `not url.strip()` reads it
strip(url) == IF url \in {"", UrlBlank} THEN "" ELSE url

IdPub == "srv-pub"
IdLocal == "srv-local"
IdBlack == "srv-black"
IdMissing == "srv-missing"
IdNoUrl == "srv-nourl"
IdOther == "srv-other"
IdDbErr == "srv-dberr"

ServerIds == {"", IdPub, IdLocal, IdBlack, IdMissing, IdNoUrl, IdOther, IdDbErr}

\* ToolCrudOperation.get_tools: the rows the registry returns for a tool id,
\* or the query raising
get_tools(tool_id) ==
    CASE tool_id = IdPub -> [raised |-> FALSE,
                             rows |-> <<[tool_id |-> IdPub, mcp_server_url |-> UrlPub]>>]
      [] tool_id = IdLocal -> [raised |-> FALSE,
                               rows |-> <<[tool_id |-> IdLocal, mcp_server_url |-> UrlLocal]>>]
      [] tool_id = IdBlack -> [raised |-> FALSE,
                               rows |-> <<[tool_id |-> IdBlack, mcp_server_url |-> UrlBlack]>>]
      [] tool_id = IdNoUrl -> [raised |-> FALSE,
                               rows |-> <<[tool_id |-> IdNoUrl, mcp_server_url |-> ""]>>]
      [] tool_id = IdOther -> [raised |-> FALSE,
                               rows |-> <<[tool_id |-> IdPub, mcp_server_url |-> UrlPub]>>]
      [] tool_id = IdDbErr -> [raised |-> TRUE, rows |-> <<>>]
      [] OTHER -> [raised |-> FALSE, rows |-> <<>>]

\* the loop of get_mcp_server_url: the url of the first row whose tool_id
\* matches, "" when there is none
RECURSIVE first_matching_url(_, _)
first_matching_url(rows, mcp_server_id) ==
    IF rows = <<>> THEN ""
    ELSE IF Head(rows).tool_id # mcp_server_id
         THEN first_matching_url(Tail(rows), mcp_server_id)
         ELSE Head(rows).mcp_server_url

get_mcp_server_url(mcp_server_id) ==
    IF mcp_server_id = ""
    THEN [err |-> MCP_SERVER_ID_EMPTY_ERR, url |-> ""]
    ELSE LET q == get_tools(mcp_server_id) IN
         IF q.raised
         THEN [err |-> MCP_CRUD_OPERATION_FAILED_ERR, url |-> ""]
         ELSE IF q.rows = <<>>
         THEN [err |-> MCP_SERVER_NOT_FOUND_ERR, url |-> ""]
         ELSE LET mcp_server == first_matching_url(q.rows, mcp_server_id) IN
              IF mcp_server = ""
              THEN [err |-> MCP_SERVER_URL_EMPTY_ERR, url |-> mcp_server]
              ELSE [err |-> SUCCESSES, url |-> mcp_server]

(***************************************************************************)
(* What the remote MCP server answers                                      *)
(***************************************************************************)
\* tools_result.model_dump()["tools"]: a tool entry may lack name or description
ToolCatalogs ==
    { <<>>,
      <<[name |-> "search", description |-> "web search", inputSchema |-> "schema"]>>,
      <<[name |-> "search", inputSchema |-> "schema"], [inputSchema |-> "schema"]>> }

TextPart == [type |-> "text", text |-> "hello"]
\* an image part as the protocol names its fields: it has no "mineType" key
ImagePart == [type |-> "image", data |-> "aGk=", mimeType |-> "image/png"]
\* an image part of a server that also sends the key the gateway reads
ImagePartMine == [type |-> "image", data |-> "aGk=", mimeType |-> "image/png",
                  mineType |-> "image/png"]
ResourcePart == [type |-> "resource", uri |-> "file:///x"]

\* call_result.model_dump() of a tool call
CallResults ==
    { [isError |-> "False", content |-> <<>>],
      [isError |-> "False", content |-> <<TextPart, ResourcePart, ImagePartMine>>],
      [isError |-> "True", content |-> <<TextPart>>],
      [isError |-> "False", content |-> <<TextPart, ImagePart>>] }

\* tool.get(key, default) on a tool entry
dict_get(d, key, default) == IF key \in DOMAIN d THEN d[key] ELSE default

\* the MCPInfo list built from the catalog (lines 113-122)
RECURSIVE tool_infos(_)
tool_infos(tools_dict) ==
    IF tools_dict = <<>> THEN <<>>
    ELSE <<[name |-> dict_get(Head(tools_dict), "name", "No name available"),
            description |-> dict_get(Head(tools_dict), "description",
                                     "No description available"),
            inputSchema |-> dict_get(Head(tools_dict), "inputSchema", "None")]>>
         \o tool_infos(Tail(tools_dict))

\* the content loop of _execute_tool_call (lines 300-308): the parts mapped so
\* far, or a KeyError on a part that lacks a key the loop reads
RECURSIVE map_content(_)
map_content(content) ==
    IF content = <<>> THEN [raised |-> FALSE, parts |-> <<>>]
    ELSE LET data == Head(content)
             rest == map_content(Tail(content))
         IN  IF data.type = "text"
             THEN IF "text" \notin DOMAIN data \/ rest.raised
                  THEN [raised |-> TRUE, parts |-> <<>>]
                  ELSE [raised |-> FALSE,
                        parts |-> <<[kind |-> "MCPTextResponse", text |-> data.text]>>
                                  \o rest.parts]
             ELSE IF data.type = "image"
             THEN IF "data" \notin DOMAIN data \/ "mineType" \notin DOMAIN data
                     \/ rest.raised
                  THEN [raised |-> TRUE, parts |-> <<>>]
                  ELSE [raised |-> FALSE,
                        parts |-> <<[kind |-> "MCPImageResponse", data |-> data.data,
                                     mineType |-> data.mineType]>> \o rest.parts]
             ELSE rest

(***************************************************************************)
(* The security gate of the two entry points                               *)
(***************************************************************************)
\* gate_by_id as it would be with the blacklist also applied to registry urls
gate_by_id_checks_blacklist(mcp_server_id) ==
    LET r == get_mcp_server_url(mcp_server_id) IN
    IF r.err # SUCCESSES THEN [err |-> r.err, url |-> ""]
    ELSE IF is_local_url(r.url) THEN [err |-> MCP_SERVER_LOCAL_URL_ERR, url |-> ""]
    ELSE IF is_in_blacklist(r.url)
    THEN [err |-> MCP_SERVER_BLACKLIST_URL_ERR, url |-> ""]
    ELSE [err |-> SUCCESSES, url |-> r.url]

\* _process_mcp_server_by_id, lines 46-62: the error of the early return, or
\* SUCCESSES and the url to connect to
gate_by_id(mcp_server_id) ==
    LET r == get_mcp_server_url(mcp_server_id) IN
    IF r.err # SUCCESSES THEN [err |-> r.err, url |-> ""]
    ELSE IF is_local_url(r.url) THEN [err |-> MCP_SERVER_LOCAL_URL_ERR, url |-> ""]
    ELSE [err |-> SUCCESSES, url |-> r.url]

\* _process_mcp_server_by_url, lines 69-85
gate_by_url(url) ==
    IF is_local_url(url) THEN [err |-> MCP_SERVER_LOCAL_URL_ERR, url |-> ""]
    ELSE IF is_in_blacklist(url) THEN [err |-> MCP_SERVER_BLACKLIST_URL_ERR, url |-> ""]
    ELSE [err |-> SUCCESSES, url |-> url]

\* validate_and_get_url, but a server id that comes with a url is looked up
validate_and_get_url_looks_up_id(call_info) ==
    LET url == call_info.mcp_server_url
        by_id == url = "" \/ call_info.mcp_server_id # ""
    IN
    IF url # "" /\ is_in_blacklist(url)
    THEN [err |-> MCP_SERVER_BLACKLIST_URL_ERR, url |-> "", registry |-> FALSE]
    ELSE LET r == IF by_id THEN get_mcp_server_url(call_info.mcp_server_id)
                  ELSE [err |-> SUCCESSES, url |-> url]
         IN  IF r.err # SUCCESSES
             THEN [err |-> r.err, url |-> "", registry |-> TRUE]
             ELSE IF is_local_url(r.url)
             THEN [err |-> MCP_SERVER_LOCAL_URL_ERR, url |-> "", registry |-> by_id]
             ELSE [err |-> SUCCESSES, url |-> r.url, registry |-> by_id]

\* _validate_and_get_url; registry tells whether get_mcp_server_url was called
validate_and_get_url(call_info) ==
    LET url == call_info.mcp_server_url IN
    IF url # "" /\ is_in_blacklist(url)
    THEN [err |-> MCP_SERVER_BLACKLIST_URL_ERR, url |-> "", registry |-> FALSE]
    ELSE LET r == IF url = "" THEN get_mcp_server_url(call_info.mcp_server_id)
                  ELSE [err |-> SUCCESSES, url |-> url]
         IN  IF r.err # SUCCESSES
             THEN [err |-> r.err, url |-> "", registry |-> TRUE]
             ELSE IF is_local_url(r.url)
             THEN [err |-> MCP_SERVER_LOCAL_URL_ERR, url |-> "", registry |-> url = ""]
             ELSE [err |-> SUCCESSES, url |-> r.url, registry |-> url = ""]

(***************************************************************************)
(* State of one MCP invocation                                             *)
(***************************************************************************)
VARIABLES
    req,            \* the request body (MCPToolListRequest / MCPCallToolRequest)
    pc,             \* where the invocation stands
    k,              \* tool_list: targets consumed so far, ids first, then urls
    cur,            \* the target being served: its index and its item labels
    url,            \* the url handed to sse_client
    transportOpen,  \* inside `async with sse_client(...)`
    sessionOpen,    \* inside `async with ClientSession(...)`
    pending,        \* the return value or exception travelling out of the scopes
    items,          \* tool_list: the items list
    response,       \* what the entry point returned
    calls           \* history: the collaborator calls made for the target cur

mcpVars == <<req, pc, k, cur, url, transportOpen, sessionOpen, pending, items,
             response, calls>>

(***************************************************************************)
(* State of one http_run invocation                                        *)
(***************************************************************************)
VARIABLES
    run_params,     \* the request body (HttpRunRequest)
    stored,         \* what the tool registry answers for the request's tool
    http_pc,        \* where the invocation stands
    params,         \* validate_and_get_params: tool_id, operation_id, version
    tool,           \* get_tool_schema: operation_id_schema, tool_type, open_api_schema
    http_inst,      \* the HttpRun instance of setup_http_request
    sent,           \* history: the outbound calls started by do_call
    call_result,    \* what do_call came back with
    http_response,  \* what http_run returned
    otlp_enable,    \* os.getenv(const.OTLP_ENABLE_KEY, "0").lower() == "1"
    intended,       \* history: the envelope of the first handler that was called
    default_value   \* the module-level table of repair defaults (lines 51-58)

httpVars == <<run_params, stored, http_pc, params, tool, http_inst, sent,
              call_result, http_response, otlp_enable, intended, default_value>>

(***************************************************************************)
(* State of concurrent MCP invocations: the tasks of the event loop, each  *)
(* one tool_list or call_tool invocation, and the transports and sessions  *)
(* they hold                                                               *)
(***************************************************************************)
VARIABLES
    tasks,          \* per invocation: op, targets, target t, position, transport, session
    created,        \* the number of transport and session objects created so far
    uses,           \* history: which target of which invocation used which object
    session_ops     \* history: per session, the requests made on it, in order

taskVars == <<tasks, created, uses, session_ops>>

vars == <<mcpVars, httpVars, taskVars>>

PyNone == "<None>"

\* no concurrent invocations are being followed
TasksIdle ==
    /\ tasks = PyNone
    /\ created = 0
    /\ uses = {}
    /\ session_ops = PyNone

\* no http_run invocation is in progress
HttpIdle ==
    /\ run_params = PyNone
    /\ stored = PyNone
    /\ http_pc = "idle"
    /\ params = PyNone
    /\ tool = PyNone
    /\ http_inst = PyNone
    /\ sent = <<>>
    /\ call_result = PyNone
    /\ http_response = PyNone
    /\ otlp_enable = PyNone
    /\ intended = PyNone
    /\ default_value = PyNone

SeqUpTo(S, n) == UNION {[1..m -> S] : m \in 0..n}

ListUrls == RealUrls \cup {"", UrlBlank}

ToolListRequests ==
    {[op |-> "tool_list", mcp_server_ids |-> ids, mcp_server_urls |-> urls,
      mcp_server_id |-> "", mcp_server_url |-> ""] :
        <<ids, urls>> \in {p \in SeqUpTo(ServerIds, MaxTargets)
                                 \X SeqUpTo(ListUrls, MaxTargets) :
                              Len(p[1]) + Len(p[2]) <= MaxTargets}}

CallToolRequests ==
    {[op |-> "call_tool", mcp_server_ids |-> <<>>, mcp_server_urls |-> <<>>,
      mcp_server_id |-> id, mcp_server_url |-> u] :
        <<id, u>> \in ServerIds \X (RealUrls \cup {""})}

NoTarget == [t |-> 0, server_id |-> "None", server_url |-> "None"]
NoPending == [kind |-> "none", code |-> "", tools |-> <<>>, isError |-> "None",
              content |-> [none |-> TRUE, parts |-> <<>>]]
NoResponse == [code |-> "none"]

\* a return statement carrying an error: MCPItemInfo(..., tools=[]) in
\* _connect_and_get_tools, _create_error_response in _call_mcp_tool
ErrReturn(err) == [kind |-> "return", code |-> err, tools |-> <<>>,
                   isError |-> "None", content |-> [none |-> TRUE, parts |-> <<>>]]

\* a CancelledError travelling out
Cancelled == [NoPending EXCEPT !.kind = "cancel"]

\* no tool call came back
NoCallDict == [isError |-> "None", content |-> <<>>]

Call(c, res) == [t |-> cur.t, c |-> c, res |-> res, tools |-> <<>>,
                 call_dict |-> NoCallDict]

McpInit ==
    /\ req \in ToolListRequests \cup CallToolRequests
    /\ pc = IF req.op = "tool_list" THEN "loop" ELSE "call"
    /\ k = 0
    /\ cur = NoTarget
    /\ url = ""
    /\ transportOpen = FALSE
    /\ sessionOpen = FALSE
    /\ pending = NoPending
    /\ items = <<>>
    /\ response = NoResponse
    /\ calls = <<>>
    /\ HttpIdle
    /\ TasksIdle

\* MCPItemInfo of the target being served
ItemInfo(target, code, tools) ==
    [server_id |-> target.server_id, server_url |-> target.server_url,
     server_status |-> code, tools |-> tools]

(***************************************************************************)
(* tool_list: the two loops over the targets (lines 196-210)               *)
(***************************************************************************)
NIds == Len(req.mcp_server_ids)
NUrls == Len(req.mcp_server_urls)

\* lines 200-202 with _process_mcp_server_by_id up to its call of
\* _connect_and_get_tools
ProcessById ==
    /\ pc = "loop"
    /\ k < NIds
    /\ LET mcp_server_id == req.mcp_server_ids[k + 1]
           target == [t |-> k + 1, server_id |-> mcp_server_id, server_url |-> "None"]
           g == gate_by_id(mcp_server_id)
           looked == [t |-> k + 1, c |-> "get_tools", tools |-> <<>>,
                      res |-> IF get_tools(mcp_server_id).raised THEN "raise" ELSE "ok",
                      call_dict |-> NoCallDict]
       IN  /\ calls' = IF mcp_server_id = "" THEN <<>> ELSE <<looked>>
           /\ cur' = target
           /\ IF g.err # SUCCESSES
              THEN /\ items' = Append(items, ItemInfo(target, g.err, <<>>))
                   /\ k' = k + 1
                   /\ UNCHANGED <<pc, url>>
              ELSE /\ url' = g.url
                   /\ pc' = "connect"
                   /\ UNCHANGED <<items, k>>
    /\ UNCHANGED <<req, transportOpen, sessionOpen, pending, response>>
    /\ UNCHANGED <<httpVars, taskVars>>

\* lines 206-208: a url that is empty after strip() is passed over
SkipBlankUrl ==
    /\ pc = "loop"
    /\ k >= NIds /\ k < NIds + NUrls
    /\ strip(req.mcp_server_urls[k - NIds + 1]) = ""
    /\ k' = k + 1
    /\ cur' = [t |-> k + 1, server_id |-> "None",
               server_url |-> req.mcp_server_urls[k - NIds + 1]]
    /\ calls' = <<>>
    /\ UNCHANGED <<req, pc, url, transportOpen, sessionOpen, pending, items, response>>
    /\ UNCHANGED <<httpVars, taskVars>>

\* lines 209-210 with _process_mcp_server_by_url up to its call of
\* _connect_and_get_tools
ProcessByUrl ==
    /\ pc = "loop"
    /\ k >= NIds /\ k < NIds + NUrls
    /\ LET u == req.mcp_server_urls[k - NIds + 1]
           target == [t |-> k + 1, server_id |-> "None", server_url |-> u]
           g == gate_by_url(u)
       IN  /\ strip(u) # ""
           /\ cur' = target
           /\ calls' = <<>>
           /\ IF g.err # SUCCESSES
              THEN /\ items' = Append(items, ItemInfo(target, g.err, <<>>))
                   /\ k' = k + 1
                   /\ UNCHANGED <<pc, url>>
              ELSE /\ url' = g.url
                   /\ pc' = "connect"
                   /\ UNCHANGED <<items, k>>
    /\ UNCHANGED <<req, transportOpen, sessionOpen, pending, response>>
    /\ UNCHANGED <<httpVars, taskVars>>

\* lines 212-232: the envelope around the items
ToolListReturn ==
    /\ pc = "loop"
    /\ k = NIds + NUrls
    /\ response' = [code |-> SUCCESSES, servers |-> items]
    /\ pc' = "done"
    /\ UNCHANGED <<req, k, cur, url, transportOpen, sessionOpen, pending, items, calls>>
    /\ UNCHANGED <<httpVars, taskVars>>

(***************************************************************************)
(* call_tool: the gate (lines 447-452)                                     *)
(***************************************************************************)
ValidateUrl ==
    /\ pc = "call"
    /\ LET v == validate_and_get_url(req)
           target == [t |-> 1, server_id |-> req.mcp_server_id,
                      server_url |-> req.mcp_server_url]
           looked == [t |-> 1, c |-> "get_tools", tools |-> <<>>,
                      res |-> IF get_tools(req.mcp_server_id).raised
                              THEN "raise" ELSE "ok",
                      call_dict |-> NoCallDict]
       IN  /\ calls' = IF v.registry /\ req.mcp_server_id # ""
                       THEN <<looked>> ELSE <<>>
           /\ cur' = target
           /\ IF v.err # SUCCESSES
              THEN /\ response' = [code |-> v.err, isError |-> "None",
                                   content |-> [none |-> TRUE, parts |-> <<>>]]
                   /\ pc' = "done"
                   /\ UNCHANGED url
              ELSE /\ url' = v.url
                   /\ pc' = "connect"
                   /\ UNCHANGED response
    /\ UNCHANGED <<req, k, transportOpen, sessionOpen, pending, items>>
    /\ UNCHANGED <<httpVars, taskVars>>

(***************************************************************************)
(* _connect_and_get_tools (lines 90-158) and _call_mcp_tool (lines 319-375):*)
(* the nested scopes.  Every step is one await; each may succeed or raise. *)
(***************************************************************************)
\* the error of the innermost handler that catches an exception raised in the
\* phase (the except clauses at lines 100/273, 132/311, 141/364, 150/370)
PhaseError(phase) ==
    CASE phase = "connect" -> MCP_SERVER_CONNECT_ERR
      [] phase = "session" -> MCP_SERVER_SESSION_ERR
      [] phase = "init" -> MCP_SERVER_INITIAL_ERR
      [] phase = "op" -> IF req.op = "tool_list" THEN MCP_SERVER_TOOL_LIST_ERR
                         ELSE MCP_SERVER_CALL_TOOL_ERR

\* the initialize handler without its return: control falls through to the
\* operation
AfterInitErrorFallsThrough == "op"

\* where control goes when the initialize handler has returned its error:
\* out of the session scope (return at lines 102 / 339)
AfterInitError == "exit_session"

\* `async with sse_client(url=url) as (read, write)`: __aenter__
Connect ==
    /\ pc = "connect"
    /\ \E ok \in BOOLEAN :
         /\ calls' = Append(calls, Call("sse_client", IF ok THEN "ok" ELSE "raise"))
         /\ IF ok
            THEN /\ transportOpen' = TRUE
                 /\ pc' = "session"
                 /\ UNCHANGED pending
            ELSE /\ pending' = ErrReturn(PhaseError("connect"))
                 /\ pc' = "return"
                 /\ UNCHANGED transportOpen
    /\ UNCHANGED <<req, k, cur, url, sessionOpen, items, response>>
    /\ UNCHANGED <<httpVars, taskVars>>

\* `async with ClientSession(read, write, ...) as session`: __aenter__
OpenSession ==
    /\ pc = "session"
    /\ \E ok \in BOOLEAN :
         /\ calls' = Append(calls, Call("ClientSession", IF ok THEN "ok" ELSE "raise"))
         /\ IF ok
            THEN /\ sessionOpen' = TRUE
                 /\ pc' = "init"
                 /\ UNCHANGED pending
            ELSE /\ pending' = ErrReturn(PhaseError("session"))
                 /\ pc' = "exit_transport"
                 /\ UNCHANGED sessionOpen
    /\ UNCHANGED <<req, k, cur, url, transportOpen, items, response>>
    /\ UNCHANGED <<httpVars, taskVars>>

\* `await session.initialize()` (line 99; _initialize_session)
Initialize ==
    /\ pc = "init"
    /\ \E ok \in BOOLEAN :
         /\ calls' = Append(calls, Call("initialize", IF ok THEN "ok" ELSE "raise"))
         /\ IF ok
            THEN /\ pc' = "op"
                 /\ UNCHANGED pending
            ELSE /\ pending' = ErrReturn(PhaseError("init"))
                 /\ pc' = AfterInitError
    /\ UNCHANGED <<req, k, cur, url, transportOpen, sessionOpen, items, response>>
    /\ UNCHANGED <<httpVars, taskVars>>

\* `await session.list_tools()` and the MCPInfo loop (lines 110-140)
ListTools ==
    /\ pc = "op"
    /\ req.op = "tool_list"
    /\ \/ \E tools_dict \in ToolCatalogs :
            /\ calls' = Append(calls, [Call("list_tools", "ok") EXCEPT
                                         !.tools = tools_dict])
            /\ pending' = [ErrReturn(SUCCESSES) EXCEPT !.tools = tool_infos(tools_dict)]
       \/ /\ calls' = Append(calls, Call("list_tools", "raise"))
          /\ pending' = ErrReturn(PhaseError("op"))
    /\ pc' = "exit_session"
    /\ UNCHANGED <<req, k, cur, url, transportOpen, sessionOpen, items, response>>
    /\ UNCHANGED <<httpVars, taskVars>>

\* _execute_tool_call and lines 353-363
CallTool ==
    /\ pc = "op"
    /\ req.op = "call_tool"
    /\ \/ \E call_dict \in CallResults :
            LET m == map_content(call_dict.content) IN
            /\ calls' = Append(calls, [Call("call_tool", "ok") EXCEPT
                                           !.call_dict = call_dict])
            /\ pending' = IF m.raised
                          THEN ErrReturn(PhaseError("op"))
                          ELSE [ErrReturn(SUCCESSES) EXCEPT
                                  !.isError = call_dict.isError,
                                  !.content = [none |-> FALSE, parts |-> m.parts]]
       \/ /\ calls' = Append(calls, Call("call_tool", "raise"))
          /\ pending' = ErrReturn(PhaseError("op"))
    /\ pc' = "exit_session"
    /\ UNCHANGED <<req, k, cur, url, transportOpen, sessionOpen, items, response>>
    /\ UNCHANGED <<httpVars, taskVars>>

\* the task is cancelled while suspended in one of the awaits: CancelledError
\* is no Exception, so no except clause catches it and it unwinds the scopes
Cancel ==
    /\ pc \in {"connect", "session", "init", "op"}
    /\ calls' = Append(calls, Call(CASE pc = "connect" -> "sse_client"
                                     [] pc = "session" -> "ClientSession"
                                     [] pc = "init" -> "initialize"
                                     [] pc = "op" -> IF req.op = "tool_list"
                                                     THEN "list_tools" ELSE "call_tool",
                                   "cancel"))
    /\ pending' = Cancelled
    /\ pc' = IF sessionOpen THEN "exit_session"
             ELSE IF transportOpen THEN "exit_transport" ELSE "return"
    /\ UNCHANGED <<req, k, cur, url, transportOpen, sessionOpen, items, response>>
    /\ UNCHANGED <<httpVars, taskVars>>

\* what leaves the ClientSession scope: __aexit__ raising is caught by the
\* handler at lines 141 / 364, whatever was on its way out
session_exit_outcome(p, raised) ==
    IF raised THEN ErrReturn(PhaseError("session")) ELSE p

\* what leaves the sse_client scope (handler at lines 150 / 370)
transport_exit_outcome(p, raised) ==
    IF raised THEN ErrReturn(PhaseError("connect")) ELSE p

\* a session created without `async with`: nothing releases it
session_never_released == FALSE

\* whether leaving the ClientSession scope releases the session
session_released == TRUE

\* ClientSession.__aexit__
ExitSession ==
    /\ pc = "exit_session"
    /\ \E raised \in BOOLEAN :
         /\ calls' = Append(calls, Call("ClientSession.__aexit__",
                                        IF raised THEN "raise" ELSE "ok"))
         /\ pending' = session_exit_outcome(pending, raised)
    /\ sessionOpen' = IF session_released THEN FALSE ELSE sessionOpen
    /\ pc' = "exit_transport"
    /\ UNCHANGED <<req, k, cur, url, transportOpen, items, response>>
    /\ UNCHANGED <<httpVars, taskVars>>

\* sse_client.__aexit__
ExitTransport ==
    /\ pc = "exit_transport"
    /\ \E raised \in BOOLEAN :
         /\ calls' = Append(calls, Call("sse_client.__aexit__",
                                        IF raised THEN "raise" ELSE "ok"))
         /\ pending' = transport_exit_outcome(pending, raised)
    /\ transportOpen' = FALSE
    /\ pc' = "return"
    /\ UNCHANGED <<req, k, cur, url, sessionOpen, items, response>>
    /\ UNCHANGED <<httpVars, taskVars>>

\* the loop as it would be if an error item ended the batch
AppendItemEndsBatchOnError ==
    /\ pc = "return"
    /\ req.op = "tool_list"
    /\ pending.kind = "return"
    /\ items' = Append(items, ItemInfo(cur, pending.code, pending.tools))
    /\ k' = IF pending.code # SUCCESSES THEN NIds + NUrls ELSE k + 1
    /\ pc' = "loop"
    /\ pending' = NoPending
    /\ UNCHANGED <<req, cur, url, transportOpen, sessionOpen, response, calls>>
    /\ UNCHANGED <<httpVars, taskVars>>

\* tool_list lines 201-202 / 209-210: the item returned by
\* _connect_and_get_tools is appended and the loop goes on
AppendItem ==
    /\ pc = "return"
    /\ req.op = "tool_list"
    /\ pending.kind = "return"
    /\ items' = Append(items, ItemInfo(cur, pending.code, pending.tools))
    /\ k' = k + 1
    /\ pc' = "loop"
    /\ pending' = NoPending
    /\ UNCHANGED <<req, cur, url, transportOpen, sessionOpen, response, calls>>
    /\ UNCHANGED <<httpVars, taskVars>>

\* call_tool lines 455-483: the response of _call_mcp_tool is returned
CallToolReturn ==
    /\ pc = "return"
    /\ req.op = "call_tool"
    /\ pending.kind = "return"
    /\ response' = [code |-> pending.code, isError |-> pending.isError,
                    content |-> pending.content]
    /\ pc' = "done"
    /\ pending' = NoPending
    /\ UNCHANGED <<req, k, cur, url, transportOpen, sessionOpen, items, calls>>
    /\ UNCHANGED <<httpVars, taskVars>>

\* the CancelledError leaves the entry point: the invocation has no result
Propagate ==
    /\ pc = "return"
    /\ pending.kind = "cancel"
    /\ pc' = "cancelled"
    /\ UNCHANGED <<req, k, cur, url, transportOpen, sessionOpen, pending, items,
                   response, calls>>
    /\ UNCHANGED <<httpVars, taskVars>>

McpNext ==
    \/ ProcessById
    \/ SkipBlankUrl
    \/ ProcessByUrl
    \/ ToolListReturn
    \/ ValidateUrl
    \/ Connect
    \/ OpenSession
    \/ Initialize
    \/ ListTools
    \/ CallTool
    \/ Cancel
    \/ ExitSession
    \/ ExitTransport
    \/ AppendItem
    \/ CallToolReturn
    \/ Propagate

SpecMcp == McpInit /\ [][McpNext]_vars

(***************************************************************************)
(* Reading the history of the target being served (cur)                    *)
(***************************************************************************)
IsToolList == req.op = "tool_list"

\* a tool_list url that the loop passes over
IsBlankTarget(t) ==
    IsToolList /\ t > NIds /\ req.mcp_server_urls[t - NIds] \in {"", UrlBlank}

\* given as a url by the caller (call_tool: the url wins over the id)
IsDirect(t) == IF IsToolList THEN t > NIds ELSE req.mcp_server_url # ""

TargetId(t) == IF IsToolList THEN req.mcp_server_ids[t] ELSE req.mcp_server_id

\* the url of the target: the caller's, or the registry's ("" when unresolved)
TargetUrl(t) ==
    IF IsDirect(t)
    THEN IF IsToolList THEN req.mcp_server_urls[t - NIds] ELSE req.mcp_server_url
    ELSE get_mcp_server_url(TargetId(t)).url

Served == cur.t # 0

\* the entry point holds the result of the target cur
HasResult ==
    /\ Served
    /\ IF IsToolList THEN pc \in {"loop", "done"} /\ ~IsBlankTarget(cur.t)
       ELSE pc = "done"

ResultCode == IF IsToolList THEN items[Len(items)].server_status ELSE response.code

Made(c, res) == \E n \in 1..Len(calls) : calls[n].c = c /\ calls[n].res = res

\* sse_client was called for the target
Connecting == \E n \in 1..Len(calls) : calls[n].c = "sse_client"

OpName == IF IsToolList THEN "list_tools" ELSE "call_tool"

CurLocal == Served /\ TargetUrl(cur.t) # "" /\ is_local_url(TargetUrl(cur.t))
CurBlacklisted == Served /\ TargetUrl(cur.t) # "" /\ is_in_blacklist(TargetUrl(cur.t))

(***************************************************************************)
(* C1  A target whose url is local (a direct url, or the url the registry  *)
(*     gives for a server id) is answered with the local-url rejection,    *)
(*     and sse_client is never called for it.                              *)
(***************************************************************************)
C1_LocalUrlRejectedAsLocal ==
    CurLocal =>
        /\ ~Connecting
        /\ pc # "connect"
        /\ HasResult => ResultCode = MCP_SERVER_LOCAL_URL_ERR

(***************************************************************************)
(* C2  (as stated) A blacklisted direct url is answered with the blacklist *)
(*     error and never connected; a registry url is never checked against  *)
(*     the blacklist, so a non-local blacklisted one reaches sse_client.   *)
(***************************************************************************)
C2_BlacklistedDirectGetsBlacklistError ==
    /\ (CurBlacklisted /\ IsDirect(cur.t)) =>
          /\ ~Connecting
          /\ pc # "connect"
          /\ HasResult => ResultCode = MCP_SERVER_BLACKLIST_URL_ERR
    /\ (CurBlacklisted /\ ~IsDirect(cur.t) /\ ~CurLocal) =>
          (Connecting \/ pc = "connect")

(***************************************************************************)
(* C2  (amended) A blacklisted direct url is rejected before any           *)
(*     connection: with the blacklist error when it is not local, with the *)
(*     blacklist or the local-url error when it is also local.  A registry *)
(*     url is never checked against the blacklist: a non-local blacklisted *)
(*     one reaches sse_client.                                             *)
(***************************************************************************)
C2_BlacklistOnlyForDirectUrls ==
    /\ (CurBlacklisted /\ IsDirect(cur.t)) =>
          /\ ~Connecting
          /\ pc # "connect"
          /\ HasResult
          /\ ResultCode \in {MCP_SERVER_BLACKLIST_URL_ERR, MCP_SERVER_LOCAL_URL_ERR}
          /\ ~CurLocal => ResultCode = MCP_SERVER_BLACKLIST_URL_ERR
    /\ (CurBlacklisted /\ ~IsDirect(cur.t) /\ ~CurLocal) =>
          (Connecting \/ pc = "connect")

C2_Witness ==
    /\ pc = "done"
    /\ CurBlacklisted /\ IsDirect(cur.t) /\ ResultCode = MCP_SERVER_BLACKLIST_URL_ERR
    /\ Len(items) = 2
    /\ items[1].server_id = IdBlack
    /\ items[1].server_status = SUCCESSES

(***************************************************************************)
(* C3  Within one target the calls come only in the order resolve,         *)
(*     sse_client, ClientSession, initialize, one list_tools / call_tool,  *)
(*     scope exits; each is made only right after the one before it        *)
(*     succeeded, and none is made twice.                                  *)
(***************************************************************************)
\* the entry before entry n
PrevIs(n, c, results) ==
    /\ n > 1
    /\ calls[n - 1].c = c
    /\ calls[n - 1].res \in results

C3_PhasesInOrder ==
    /\ \A n \in 1..Len(calls) :
         LET c == calls[n].c IN
         /\ calls[n].t = cur.t
         /\ c = "get_tools" => n = 1
         /\ c = "sse_client" => (n = 1 \/ PrevIs(n, "get_tools", {"ok"}))
         /\ c = "ClientSession" => PrevIs(n, "sse_client", {"ok"})
         /\ c = "initialize" => PrevIs(n, "ClientSession", {"ok"})
         /\ c \in {"list_tools", "call_tool"} =>
               (c = OpName /\ PrevIs(n, "initialize", {"ok"}))
         /\ c = "ClientSession.__aexit__" =>
               \/ PrevIs(n, "initialize", {"raise", "cancel"})
               \/ PrevIs(n, OpName, {"ok", "raise", "cancel"})
         /\ c = "sse_client.__aexit__" =>
               \/ PrevIs(n, "ClientSession", {"raise", "cancel"})
               \/ PrevIs(n, "ClientSession.__aexit__", {"ok", "raise"})
         /\ \A m \in 1..(n - 1) : calls[m].c # c
    /\ (HasResult /\ Made("initialize", "ok")) =>
          /\ Cardinality({n \in 1..Len(calls) : calls[n].c = OpName}) = 1
          /\ calls[Len(calls)].c = "sse_client.__aexit__"

C3_Witness ==
    /\ pc = "done"
    /\ IsToolList
    /\ Len(items) = 2
    /\ items[1].server_status = MCP_SERVER_INITIAL_ERR
    /\ Made("sse_client", "ok") /\ Made("ClientSession", "ok")
    /\ Made("initialize", "ok") /\ Made("list_tools", "ok")
    /\ Made("sse_client.__aexit__", "ok")

(***************************************************************************)
(* C4  Whenever a target's processing has returned, or the cancellation    *)
(*     has left the entry point, no transport and no session is open, and  *)
(*     every scope that was entered has been exited.                       *)
(***************************************************************************)
C4_ScopesReleased ==
    pc \in {"loop", "return", "done", "cancelled"} =>
        /\ ~transportOpen
        /\ ~sessionOpen
        /\ \A n \in 1..Len(calls) :
             /\ (calls[n].c = "sse_client" /\ calls[n].res = "ok") =>
                   \E m \in (n + 1)..Len(calls) : calls[m].c = "sse_client.__aexit__"
             /\ (calls[n].c = "ClientSession" /\ calls[n].res = "ok") =>
                   \E m \in (n + 1)..Len(calls) : calls[m].c = "ClientSession.__aexit__"

C4_Witness ==
    /\ pc = "cancelled"
    /\ Made("sse_client", "ok") /\ Made("ClientSession", "ok")
    /\ Made(OpName, "cancel")
    /\ Made("ClientSession.__aexit__", "ok")

(***************************************************************************)
(* C5  The error returned for a target is the error of the phase that      *)
(*     failed (connect, session, initialize, list_tools / call_tool), with *)
(*     an empty tools list, resp. no is_error and no content.              *)
(***************************************************************************)
FailedPhase ==
    CASE Made("sse_client", "raise") -> "connect"
      [] Made("ClientSession", "raise") -> "session"
      [] Made("initialize", "raise") -> "init"
      [] Made(OpName, "raise") -> "op"
      [] OTHER -> "none"

C5_ErrorKindOfFailedPhase ==
    (HasResult /\ FailedPhase # "none") =>
        /\ ResultCode = PhaseError(FailedPhase)
        /\ IsToolList => items[Len(items)].tools = <<>>
        /\ ~IsToolList => (response.isError = "None" /\ response.content.none)

(***************************************************************************)
(* C6  tool_list isolates the targets and keeps their order: the entries   *)
(*     are those of the server ids, then of the server urls, each in input *)
(*     order; the status and tools of an entry are decided by its own      *)
(*     target alone (its resolution, its gate, its own calls); an entry,   *)
(*     once made, is never changed by a later target, and a failing target *)
(*     does not end the batch.                                             *)
(***************************************************************************)
\* the targets that get an entry, in input order
RECURSIVE KeptUpTo(_)
KeptUpTo(n) ==
    IF n = 0 THEN <<>>
    ELSE IF IsBlankTarget(n) THEN KeptUpTo(n - 1) ELSE Append(KeptUpTo(n - 1), n)

KeptTargets == KeptUpTo(NIds + NUrls)

\* the error of the target's own resolution and gate, SUCCESSES when it passes
OwnGate(t) ==
    IF ~IsDirect(t)
    THEN LET r == get_mcp_server_url(TargetId(t)) IN
         IF r.err # SUCCESSES THEN r.err
         ELSE IF is_local_url(r.url) THEN MCP_SERVER_LOCAL_URL_ERR ELSE SUCCESSES
    ELSE IF is_local_url(TargetUrl(t)) THEN MCP_SERVER_LOCAL_URL_ERR
    ELSE IF is_in_blacklist(TargetUrl(t)) THEN MCP_SERVER_BLACKLIST_URL_ERR
    ELSE SUCCESSES

\* the status the calls made for the target cur lead to
OwnStatus ==
    IF OwnGate(cur.t) # SUCCESSES THEN OwnGate(cur.t)
    ELSE IF Made("sse_client", "raise") \/ Made("sse_client.__aexit__", "raise")
    THEN MCP_SERVER_CONNECT_ERR
    ELSE IF Made("ClientSession", "raise") \/ Made("ClientSession.__aexit__", "raise")
    THEN MCP_SERVER_SESSION_ERR
    ELSE IF Made("initialize", "raise") THEN MCP_SERVER_INITIAL_ERR
    ELSE IF Made("list_tools", "raise") THEN MCP_SERVER_TOOL_LIST_ERR
    ELSE SUCCESSES

\* the catalog the target's own server answered
OwnCatalog ==
    LET n == CHOOSE n \in 1..Len(calls) :
                 calls[n].c = "list_tools" /\ calls[n].res = "ok"
    IN  calls[n].tools

TargetLabel(t) ==
    [server_id |-> IF IsDirect(t) THEN "None" ELSE TargetId(t),
     server_url |-> IF IsDirect(t) THEN TargetUrl(t) ELSE "None"]

ConnectionStatuses ==
    {SUCCESSES, MCP_SERVER_CONNECT_ERR, MCP_SERVER_SESSION_ERR,
     MCP_SERVER_INITIAL_ERR, MCP_SERVER_TOOL_LIST_ERR}

C6_EntriesOfOwnTargets ==
    IsToolList =>
        /\ Len(items) <= Len(KeptTargets)
        /\ \A i \in 1..Len(items) :
             LET t == KeptTargets[i] IN
             /\ items[i].server_id = TargetLabel(t).server_id
             /\ items[i].server_url = TargetLabel(t).server_url
             /\ IF OwnGate(t) # SUCCESSES
                THEN items[i].server_status = OwnGate(t) /\ items[i].tools = <<>>
                ELSE items[i].server_status \in ConnectionStatuses
        /\ HasResult =>
             /\ items[Len(items)].server_status = OwnStatus
             /\ items[Len(items)].tools =
                   IF OwnStatus = SUCCESSES THEN tool_infos(OwnCatalog) ELSE <<>>
        /\ pc = "done" => (Len(items) = Len(KeptTargets) /\ response.servers = items)

C6_EntriesNeverChange ==
    \A i \in 1..Len(items) : Len(items') >= i /\ items'[i] = items[i]

C6_BatchIsolatedAndOrdered ==
    [] C6_EntriesOfOwnTargets /\ [][C6_EntriesNeverChange]_mcpVars

\* one unresolvable and one resolvable id: two entries in input order
C6_Witness ==
    /\ pc = "done"
    /\ req.mcp_server_ids = <<IdMissing, IdPub>>
    /\ Len(response.servers) = 2
    /\ response.servers[1].server_status = MCP_SERVER_NOT_FOUND_ERR
    /\ response.servers[2].server_status = SUCCESSES
    /\ response.servers[2].tools # <<>>

(***************************************************************************)
(* C7  (as stated) The result of tool_list has one entry per supplied      *)
(*     target: as many entries as server ids plus server urls.             *)
(***************************************************************************)
C7_OneEntryPerSuppliedTarget ==
    (IsToolList /\ pc = "done") => Len(response.servers) = NIds + NUrls

(***************************************************************************)
(* C7  (amended) The result of tool_list has one entry per supplied server *)
(*     id and per supplied server url that is not empty or whitespace, the *)
(*     k-th entry being that of the k-th such target; urls that are empty  *)
(*     after strip() get no entry.                                         *)
(***************************************************************************)
NonBlankUrls ==
    {j \in 1..NUrls : req.mcp_server_urls[j] \notin {"", UrlBlank}}

\* the server urls from the j-th on that are not blank, in input order
RECURSIVE LabelsFrom(_)
LabelsFrom(j) ==
    IF j > NUrls THEN <<>>
    ELSE IF j \in NonBlankUrls
         THEN <<req.mcp_server_urls[j]>> \o LabelsFrom(j + 1)
         ELSE LabelsFrom(j + 1)

C7_OneEntryPerNonBlankTarget ==
    (IsToolList /\ pc = "done") =>
        /\ Len(response.servers) = NIds + Cardinality(NonBlankUrls)
        /\ \A i \in 1..Len(response.servers) :
             IF i <= NIds
             THEN /\ response.servers[i].server_id = req.mcp_server_ids[i]
                  /\ response.servers[i].server_url = "None"
             ELSE /\ response.servers[i].server_url = LabelsFrom(1)[i - NIds]
                  /\ response.servers[i].server_id = "None"

C7_Witness ==
    /\ IsToolList /\ pc = "done"
    /\ NUrls = 2
    /\ req.mcp_server_urls[1] = UrlBlank
    /\ Len(response.servers) = 1
    /\ response.servers[1].server_url = req.mcp_server_urls[2]

(***************************************************************************)
(* execution_server.py: ErrCode members and constants                      *)
(***************************************************************************)
JSON_PROTOCOL_PARSER_ERR == "JSON_PROTOCOL_PARSER_ERR"
OPENAPI_AUTH_TYPE_ERR == "OPENAPI_AUTH_TYPE_ERR"
RESPONSE_SCHEMA_VALIDATE_ERR == "RESPONSE_SCHEMA_VALIDATE_ERR"
COMMON_ERR == "COMMON_ERR"
TOOL_NOT_EXIST_ERR == "TOOL_NOT_EXIST_ERR"
OPERATION_ID_NOT_EXIST_ERR == "OPERATION_ID_NOT_EXIST_ERR"
\* err.code of a SparkLinkBaseException raised by a collaborator
SparkLinkCode == "err.code"

\* const.DEF_VER
DEF_VER == "V1.0"

(***************************************************************************)
(* Python values: dicts are functions on their keys, None is PyNone, a     *)
(* formatted string is the sequence of its pieces.                         *)
(***************************************************************************)
EmptyDict == [key \in {} |-> ""]

\* an update that keeps the entries d already has
dict_update_keeps_existing(d, other) == d @@ other

\* d.update(other)
dict_update(d, other) == other @@ d

\* `not v` for a string or None
falsy(v) == v \in {PyNone, ""}

\* str(v) inside an f-string
py_str(v) == IF v = PyNone THEN "None" ELSE v

\* the pieces of text (of the bounded vocabulary) that hold "Security type"
HoldsSecurityType == {"Security type ", "Security type"}

\* `"Security type" in text`, text being the pieces of a formatted string
mentions_security_type(text) ==
    \E n \in 1..Len(text) : text[n] \in HoldsSecurityType

(***************************************************************************)
(* Operation contracts: the entries of the parsed schema, by operation id  *)
(***************************************************************************)
ApiKeyHeader == ("type" :> "apiKey" @@ "name" :> "X-Api-Key" @@ "in" :> "header"
                 @@ "x-value" :> "secret")
ApiKeyQuery == ("type" :> "apiKey" @@ "name" :> "api_key" @@ "in" :> "query"
                @@ "x-value" :> "secret")
ApiKeyCookie == ("type" :> "apiKey" @@ "name" :> "sid" @@ "in" :> "cookie"
                 @@ "x-value" :> "secret")
HttpBearer == ("type" :> "http" @@ "name" :> "Authorization" @@ "in" :> "header"
               @@ "x-value" :> "Bearer tok")
NoKind == ("name" :> "X-Api-Key" @@ "in" :> "header" @@ "x-value" :> "secret")
NoName == ("type" :> "apiKey" @@ "in" :> "header" @@ "x-value" :> "secret")
EmptyName == ("type" :> "apiKey" @@ "name" :> "" @@ "in" :> "header"
              @@ "x-value" :> "secret")
NoValue == ("type" :> "apiKey" @@ "name" :> "X-Api-Key" @@ "in" :> "header")
EmptyValue == ("type" :> "apiKey" @@ "name" :> "X-Api-Key" @@ "in" :> "query"
               @@ "x-value" :> "")
\* a credential whose name is the text the caller of process_authentication
\* looks for in the exception
NamedSecurityType == ("type" :> "apiKey" @@ "name" :> "Security type"
                      @@ "in" :> "header")

SecurityEntries == {ApiKeyHeader, ApiKeyQuery, ApiKeyCookie, HttpBearer, NoKind,
                    NoName, EmptyName, NoValue, EmptyValue, NamedSecurityType}

\* the security section and the selected security_type of a contract
Securities ==
    {[security |-> EmptyDict, security_type |-> ""]}
    \cup {[security |-> ("scheme1" :> e), security_type |-> "scheme1"] :
            e \in SecurityEntries}
    \cup {[security |-> ("scheme1" :> ApiKeyHeader), security_type |-> "scheme2"]}

Contracts ==
    {[server_url |-> "https://api.example.com", method |-> "get",
      security |-> s.security, security_type |-> s.security_type] :
        s \in Securities}

NoContract == [server_url |-> "", method |-> "", security |-> EmptyDict,
               security_type |-> ""]

(***************************************************************************)
(* process_authentication (lines 222-247)                                  *)
(***************************************************************************)
\* the exception of line 234, with a text its handler does not recognise
missing_type_text_lowercase(security_type) ==
    <<"security type ", security_type, " not found in security schema">>

\* the text of the exception of lines 232-234
missing_type_text(security_type) ==
    <<"Security type ", security_type, " not found in security schema">>

\* a check of the credential that looks at its name only
credential_incomplete_name_only(auth_name, auth_value) == falsy(auth_name)

\* line 239: `not auth_name or not auth_value`
credential_incomplete(auth_name, auth_value) ==
    falsy(auth_name) \/ falsy(auth_value)

\* an injection that puts an apiKey credential into header and query alike
process_authentication_merges_both(operation_id_schema, message_header, message_query) ==
    LET security == operation_id_schema.security
        security_type == operation_id_schema.security_type
        unchanged == [raised |-> <<>>, message_header |-> message_header,
                      message_query |-> message_query]
    IN  IF DOMAIN security = {}
        THEN unchanged
        ELSE IF security_type \notin DOMAIN security
        THEN [unchanged EXCEPT !.raised = missing_type_text(security_type)]
        ELSE
          LET api_key_info == security[security_type]
              auth_name == dict_get(api_key_info, "name", PyNone)
              auth_value == dict_get(api_key_info, "x-value", PyNone)
              api_key_dict == (auth_name :> auth_value)
          IN  IF credential_incomplete(auth_name, auth_value)
              THEN [unchanged EXCEPT !.raised =
                        <<"auth name:", py_str(auth_name),
                          ", auth value:", py_str(auth_value)>>]
              ELSE IF dict_get(api_key_info, "type", PyNone) = "apiKey"
              THEN [unchanged EXCEPT
                        !.message_header = dict_update(message_header, api_key_dict),
                        !.message_query = dict_update(message_query, api_key_dict)]
              ELSE unchanged

\* The function returns None and updates the two dicts in place; here it
\* returns the exception text it raised (<<>> for none) and the two dicts.
process_authentication(operation_id_schema, message_header, message_query) ==
    LET security == operation_id_schema.security
        security_type == operation_id_schema.security_type
        unchanged == [raised |-> <<>>, message_header |-> message_header,
                      message_query |-> message_query]
    IN  IF DOMAIN security = {}
        THEN unchanged
        ELSE IF security_type \notin DOMAIN security
        THEN [unchanged EXCEPT !.raised = missing_type_text(security_type)]
        ELSE
          LET api_key_info == security[security_type]
              auth_name == dict_get(api_key_info, "name", PyNone)
              auth_value == dict_get(api_key_info, "x-value", PyNone)
              api_key_dict == (auth_name :> auth_value)
          IN  IF credential_incomplete(auth_name, auth_value)
              THEN [unchanged EXCEPT !.raised =
                        <<"auth name:", py_str(auth_name),
                          ", auth value:", py_str(auth_value)>>]
              ELSE IF dict_get(api_key_info, "type", PyNone) = "apiKey"
              THEN IF dict_get(api_key_info, "in", PyNone) = "header"
                   THEN [unchanged EXCEPT !.message_header =
                             dict_update(message_header, api_key_dict)]
                   ELSE IF dict_get(api_key_info, "in", PyNone) = "query"
                   THEN [unchanged EXCEPT !.message_query =
                             dict_update(message_query, api_key_dict)]
                   ELSE unchanged
              ELSE unchanged

(***************************************************************************)
(* The caller's fragments and process_message_params (lines 404-428)       *)
(*                                                                         *)
(* A JSON text is the sequence of its tokens.  A fragment is a text in     *)
(* base64: a sequence of symbols, each one a run of characters of the      *)
(* base64 alphabet that stands for one token ("group"), a trailing run     *)
(* that does not fill a group and has no padding ("partial"), or a         *)
(* character outside the alphabet ("junk").                                *)
(***************************************************************************)
Punct(text) == [kind |-> "punct", text |-> text]
Str(text) == [kind |-> "string", text |-> text]

\* json.dumps of a dict of strings, done by the caller
RECURSIVE dumps_members(_, _)
dumps_members(obj, keys) ==
    IF keys = {} THEN <<>>
    ELSE LET key == CHOOSE key \in keys : TRUE
             rest == keys \ {key}
         IN  <<Str(key), Punct(":"), Str(obj[key])>>
             \o (IF rest = {} THEN <<>> ELSE <<Punct(",")>> \o dumps_members(obj, rest))

dumps_dict(obj) == <<Punct("{")>> \o dumps_members(obj, DOMAIN obj) \o <<Punct("}")>>

\* json.loads of a text, for the objects whose values are strings: raised
\* when the text is not JSON; a key met twice keeps its last value
RECURSIVE loads_members(_, _)
loads_members(tokens, obj) ==
    IF Len(tokens) >= 4
       /\ tokens[1].kind = "string" /\ tokens[2] = Punct(":") /\ tokens[3].kind = "string"
    THEN LET so_far == (tokens[1].text :> tokens[3].text) @@ obj
         IN  IF tokens[4] = Punct("}") /\ Len(tokens) = 4
             THEN [raised |-> FALSE, obj |-> so_far]
             ELSE IF tokens[4] = Punct(",")
             THEN loads_members(SubSeq(tokens, 5, Len(tokens)), so_far)
             ELSE [raised |-> TRUE, obj |-> EmptyDict]
    ELSE [raised |-> TRUE, obj |-> EmptyDict]

loads_dict(tokens) ==
    IF tokens = <<Punct("{"), Punct("}")>>
    THEN [raised |-> FALSE, obj |-> EmptyDict]
    ELSE IF Len(tokens) >= 1 /\ tokens[1] = Punct("{")
    THEN loads_members(Tail(tokens), EmptyDict)
    ELSE [raised |-> TRUE, obj |-> EmptyDict]

Group(token) == [kind |-> "group", token |-> token]
Partial == [kind |-> "partial", token |-> Punct("")]
Junk == [kind |-> "junk", token |-> Punct("#")]

\* base64.b64encode of a text, done by the caller
b64encode(tokens) == [n \in 1..Len(tokens) |-> Group(tokens[n])]

\* base64.b64decode(data), validate=False: the characters outside the
\* alphabet are discarded, then binascii.Error is raised for a text that
\* does not end on a whole group
b64decode(data) ==
    LET kept == SelectSeq(data, LAMBDA symbol : symbol.kind # "junk")
    IN  [raised |-> \E n \in 1..Len(kept) : kept[n].kind = "partial",
         tokens |-> [n \in 1..Len(kept) |-> kept[n].token]]

\* the fragment texts: the empty text, an object encoded, a text that is not
\* base64 (no padding; a stray character), base64 of a text that is not JSON
EmptyText == <<>>
Encoded(obj) == b64encode(dumps_dict(obj))
BadBase64 == Append(Encoded(EmptyDict), Partial)
StrayCharacter(obj) == <<Head(Encoded(obj)), Junk>> \o Tail(Encoded(obj))
BadJson == b64encode(<<Punct("{"), Str("id")>>)

\* the objects the caller encodes
FragmentObjects ==
    {("X-Api-Key" :> "caller"), ("Accept" :> "json"), ("id" :> "42"),
     ("api_key" :> "caller"),
     ("note" :> "hi" @@ "lang" :> "en")}

\* payload.message: the fragments the caller supplied, by name
Messages ==
    {h @@ q @@ b :
        h \in {EmptyDict} \cup
              {("header" :> f) : f \in {EmptyText, BadBase64,
                                        Encoded("X-Api-Key" :> "caller"),
                                        Encoded("Accept" :> "json"),
                                        StrayCharacter("Accept" :> "json")}},
        q \in {EmptyDict} \cup
              {("query" :> f) : f \in {BadJson, Encoded("id" :> "42"),
                                       Encoded("api_key" :> "caller")}},
        b \in {EmptyDict, ("body" :> Encoded("note" :> "hi" @@ "lang" :> "en"))}}

\* json.loads(base64.b64decode(data).decode("utf-8")) if (data := message.get(name)) else {}
decode_fragment(message, name) ==
    IF name \notin DOMAIN message \/ message[name] = <<>>
    THEN [raised |-> FALSE, obj |-> EmptyDict]
    ELSE LET bytes == b64decode(message[name])
         IN  IF bytes.raised
             THEN [raised |-> TRUE, obj |-> EmptyDict]
             ELSE loads_dict(bytes.tokens)

process_message_params(message) ==
    LET h == decode_fragment(message, "header")
        q == decode_fragment(message, "query")
        p == decode_fragment(message, "path")
        b == decode_fragment(message, "body")
    IN  [raised |-> h.raised \/ q.raised \/ p.raised \/ b.raised,
         message_header |-> h.obj, message_query |-> q.obj,
         path |-> p.obj, body |-> b.obj]

\* a request set up without the caller's body
setup_http_request_drops_body(operation_id_schema, message_header, message_query, path, body) ==
    [server |-> operation_id_schema.server_url,
     method |-> operation_id_schema.method,
     path |-> path, query |-> message_query, header |-> message_header,
     body |-> EmptyDict]

\* lines 431-448
setup_http_request(operation_id_schema, message_header, message_query, path, body) ==
    [server |-> operation_id_schema.server_url,
     method |-> operation_id_schema.method,
     path |-> path, query |-> message_query, header |-> message_header,
     body |-> body]

(***************************************************************************)
(* The response envelopes of the handlers (lines 61-219, 300-331).         *)
(* message is the sequence of the pieces of the formatted text.            *)
(***************************************************************************)
handle_validation_error(validate_err) ==
    [code |-> JSON_PROTOCOL_PARSER_ERR, message |-> <<validate_err>>,
     payload |-> EmptyDict]

handle_sparklink_error(err) ==
    [code |-> err.code, message |-> <<err.message>>, payload |-> EmptyDict]

handle_custom_error(error_code, message) ==
    [code |-> error_code, message |-> message, payload |-> EmptyDict]

handle_general_exception(err) ==
    [code |-> COMMON_ERR, message |-> <<"COMMON_ERR.msg", ": ">> \o err,
     payload |-> EmptyDict]

handle_success_response(result) ==
    [code |-> SUCCESSES, message |-> <<"SUCCESSES.msg">>,
     payload |-> ("text" :> ("text" :> result))]

(***************************************************************************)
(* JSON values, json.dumps and json.loads over the response texts          *)
(***************************************************************************)
\* ty says which of the fields holds the value
JNull == [ty |-> "null", text |-> "", num |-> 0, bool |-> FALSE,
          members |-> EmptyDict, elems |-> <<>>]
JStr(text) == [JNull EXCEPT !.ty = "string", !.text = text]
JNum(num) == [JNull EXCEPT !.ty = "number", !.num = num]
JBool(bool) == [JNull EXCEPT !.ty = "boolean", !.bool = bool]
JArr(elems) == [JNull EXCEPT !.ty = "array", !.elems = elems]
JObj(members) == [JNull EXCEPT !.ty = "object", !.members = members]

\* json.dumps(value, ensure_ascii=False): ", " between items, ": " after a key
RECURSIVE json_dumps(_), dump_members(_, _), dump_items(_)
json_dumps(j) ==
    CASE j.ty = "null" -> "null"
      [] j.ty = "string" -> "\"" \o j.text \o "\""
      [] j.ty = "number" -> ToString(j.num)
      [] j.ty = "boolean" -> IF j.bool THEN "true" ELSE "false"
      [] j.ty = "array" -> "[" \o dump_items(j.elems) \o "]"
      [] j.ty = "object" -> "{" \o dump_members(j.members, DOMAIN j.members) \o "}"

dump_members(members, keys) ==
    IF keys = {} THEN ""
    ELSE LET key == CHOOSE key \in keys : TRUE
             rest == keys \ {key}
         IN  "\"" \o key \o "\": " \o json_dumps(members[key])
             \o (IF rest = {} THEN "" ELSE ", " \o dump_members(members, rest))

dump_items(elems) ==
    IF elems = <<>> THEN ""
    ELSE json_dumps(Head(elems))
         \o (IF Tail(elems) = <<>> THEN "" ELSE ", " \o dump_items(Tail(elems)))

\* the documents a remote answer can hold
ResponseValues ==
    {JNull,
     JObj(EmptyDict),
     JObj("name" :> JNull),
     JObj("name" :> JStr("bob")),
     JObj("name" :> JNum(7)),
     JObj("age" :> JStr("adult")),
     JObj("age" :> JNull),
     JObj("user" :> JObj("name" :> JNull)),
     JObj("profile" :> JNull),
     JObj("tags" :> JArr(<<JStr("a"), JNull>>)),
     JObj("users" :> JArr(<<JObj("name" :> JStr("al")), JObj("name" :> JNull)>>)),
     JObj("grid" :> JArr(<<JArr(<<JNum(1), JNull>>)>>)),
     JObj("rows" :> JArr(<<JArr(<<JNull, JObj("name" :> JNull)>>)>>)),
     JArr(<<JObj("name" :> JNull)>>),
     JArr(<<JObj("name" :> JNull), JObj("name" :> JNum(7))>>),
     JObj("s" :> JNull @@ "n" :> JNull @@ "i" :> JNull @@ "o" :> JNull
          @@ "a" :> JNull @@ "b" :> JNull)}

\* a text that json.loads accepts and json.dumps does not give back
CompactText == "{\"name\":null}"

\* what do_call can return as the body of the remote answer
ResponseTexts ==
    {json_dumps(j) : j \in ResponseValues} \cup {CompactText, "plain text"}

\* json.loads(text): raised for a text that is not JSON
json_loads(text) ==
    IF text = CompactText
    THEN [raised |-> FALSE, value |-> JObj("name" :> JNull)]
    ELSE IF \E j \in ResponseValues : json_dumps(j) = text
    THEN [raised |-> FALSE,
          value |-> CHOOSE j \in ResponseValues : json_dumps(j) = text]
    ELSE [raised |-> TRUE, value |-> JNull]

\* repr() of an instance, as jsonschema puts it in a message
py_repr(j) ==
    CASE j.ty = "null" -> "None"
      [] j.ty = "string" -> "'" \o j.text \o "'"
      [] j.ty = "number" -> ToString(j.num)
      [] j.ty = "boolean" -> IF j.bool THEN "True" ELSE "False"
      [] OTHER -> json_dumps(j)

(***************************************************************************)
(* Response schemas and jsonschema.Draft7Validator.iter_errors, for the    *)
(* keywords type, properties, items and required, met in that order        *)
(***************************************************************************)
NoSchema == EmptyDict
TypeOnly(type) == [type |-> type]
ObjectOf(properties) == [type |-> "object", properties |-> properties]
ArrayOf(item_schema) == [type |-> "array", items |-> item_schema]

NameSchema == [type |-> "object",
               properties |-> ("name" :> TypeOnly("string")),
               required |-> <<"name">>]
AgeSchema == ObjectOf("age" :> TypeOnly("number"))
UserSchema == ObjectOf("user" :> ObjectOf("name" :> TypeOnly("string")))
ProfileSchema == ObjectOf("profile" :> NameSchema)
TagsSchema == ObjectOf("tags" :> ArrayOf(TypeOnly("string")))
UsersSchema == ObjectOf("users" :> ArrayOf(ObjectOf("name" :> TypeOnly("string"))))
GridSchema == ObjectOf("grid" :> ArrayOf(ArrayOf(TypeOnly("integer"))))
TextSchema == TypeOnly("string")
RowsSchema ==
    ObjectOf("rows" :> ArrayOf(ArrayOf(ObjectOf("name" :> TypeOnly("string")))))
ListSchema == ArrayOf(ObjectOf("name" :> TypeOnly("string")))
AllTypesSchema ==
    ObjectOf("s" :> TypeOnly("string") @@ "n" :> TypeOnly("number")
             @@ "i" :> TypeOnly("integer") @@ "o" :> TypeOnly("object")
             @@ "a" :> TypeOnly("array") @@ "b" :> TypeOnly("boolean"))

ResponseSchemas == {NoSchema, NameSchema, AgeSchema, UserSchema, ProfileSchema, TagsSchema,
                    UsersSchema, GridSchema, RowsSchema, ListSchema, AllTypesSchema,
                    TextSchema}

is_type(j, type) ==
    CASE type = "integer" -> j.ty = "number"
      [] OTHER -> j.ty = type

\* err.json_path is a text; it is kept as the sequence of its pieces "$",
\* ".", a key, "[", an index, "]"
key_path(json_path, key) == json_path \o <<".", key>>
index_path(json_path, index) == json_path \o <<"[", ToString(index), "]">>

\* an error of the validator; message is the sequence of the pieces of
\* err.message
type_error(j, type, json_path) ==
    [json_path |-> json_path,
     message |-> <<py_repr(j), " is not of type", " '" \o type \o "'">>]

required_error(key, json_path) ==
    [json_path |-> json_path,
     message |-> <<"'" \o key \o "'", " is a required property">>]

RECURSIVE iter_errors(_, _, _), property_errors(_, _, _, _), item_errors(_, _, _, _)
iter_errors(j, schema, json_path) ==
    (IF "type" \in DOMAIN schema /\ ~is_type(j, schema.type)
     THEN <<type_error(j, schema.type, json_path)>> ELSE <<>>)
    \o (IF "properties" \in DOMAIN schema /\ j.ty = "object"
        THEN property_errors(j, schema.properties,
                             DOMAIN schema.properties \cap DOMAIN j.members, json_path)
        ELSE <<>>)
    \o (IF "items" \in DOMAIN schema /\ j.ty = "array"
        THEN item_errors(j, schema.items, 1, json_path)
        ELSE <<>>)
    \o (IF "required" \in DOMAIN schema /\ j.ty = "object"
        THEN LET missing == SelectSeq(schema.required,
                                      LAMBDA key : key \notin DOMAIN j.members)
             IN  [n \in 1..Len(missing) |-> required_error(missing[n], json_path)]
        ELSE <<>>)

property_errors(j, properties, keys, json_path) ==
    IF keys = {} THEN <<>>
    ELSE LET key == CHOOSE key \in keys : TRUE
         IN  iter_errors(j.members[key], properties[key], key_path(json_path, key))
             \o property_errors(j, properties, keys \ {key}, json_path)

\* the items of the array j from the n-th on (index n - 1 in the path)
item_errors(j, item_schema, n, json_path) ==
    IF n > Len(j.elems) THEN <<>>
    ELSE iter_errors(j.elems[n], item_schema, index_path(json_path, n - 1))
         \o item_errors(j, item_schema, n + 1, json_path)

(***************************************************************************)
(* Stored OpenAPI documents.  operations lists the operations in the order *)
(* in which the loops over paths and methods meet them.                    *)
(***************************************************************************)
Operation(operationId, contract, response_schema) ==
    [operationId |-> operationId, contract |-> contract,
     response_schema |-> response_schema]

PlainContract == [server_url |-> "https://api.example.com", method |-> "get",
                  security |-> EmptyDict, security_type |-> ""]

\* every contract with one schema, every schema with one contract, a
\* first-party document, and documents of two operations
OpenApiDocuments ==
    {[official |-> FALSE, operations |-> <<Operation("getUser", c, NameSchema)>>] :
        c \in Contracts}
    \cup
    {[official |-> o, operations |-> <<Operation("getUser", PlainContract, rs)>>] :
        o \in BOOLEAN, rs \in ResponseSchemas}
    \cup
    {[official |-> FALSE,
      operations |-> <<Operation("getUser", PlainContract, rs[1]),
                       Operation("listUsers", PlainContract, rs[2])>>] :
        rs \in {<<NameSchema, NoSchema>>, <<NoSchema, NameSchema>>}}

NoDocument == [official |-> FALSE, operations |-> <<>>]

\* OpenapiSchemaParser(...).schema_parser(): the contracts by operation id
schema_parser(open_api_schema) ==
    LET ops == open_api_schema.operations
        last(id) == CHOOSE n \in 1..Len(ops) :
                        /\ ops[n].operationId = id
                        /\ \A m \in n + 1..Len(ops) : ops[m].operationId # id
    IN  [id \in {ops[n].operationId : n \in 1..Len(ops)} |-> ops[last(id)].contract]

\* get_response_schema, but a document that declares no schema is taken to
\* ask for an object
get_response_schema_expects_object(openapi_schema) ==
    LET ops == openapi_schema.operations
    IN  IF ops = <<>> \/ ops[Len(ops)].response_schema = EmptyDict
        THEN [type |-> "object"]
        ELSE ops[Len(ops)].response_schema

\* lines 855-870: the schema of the operation the loops meet last
get_response_schema(openapi_schema) ==
    LET ops == openapi_schema.operations
    IN  IF ops = <<>> THEN EmptyDict ELSE ops[Len(ops)].response_schema

\* the stored text of a document that get_tool_schema cannot read: text
\* that json.loads rejects (line 562), a document without "info" (line 565)
StoredFlaws == {"malformed JSON", "missing info"}

\* what ToolCrudOperation.get_tools answers for the tool of the request;
\* flaw tells what is wrong with the stored text of the row, "" for nothing
StoredTools ==
    {[outcome |-> "rows", doc |-> d, flaw |-> ""] : d \in OpenApiDocuments}
    \cup {[outcome |-> "rows", doc |-> NoDocument, flaw |-> f] : f \in StoredFlaws}
    \cup {[outcome |-> o, doc |-> NoDocument, flaw |-> ""] :
            o \in {"no_rows", "SparkLinkBaseException", "Exception"}}

(***************************************************************************)
(* validate_response_schema (lines 250-298)                                *)
(***************************************************************************)
\* the table as the import of the module leaves it
ImportedDefaults ==
    (" 'string'" :> JStr("")) @@ (" 'number'" :> JNum(0))
    @@ (" 'object'" :> JObj(EmptyDict)) @@ (" 'array'" :> JArr(<<>>))
    @@ (" 'boolean'" :> JBool(FALSE)) @@ (" 'integer'" :> JNum(0))

\* The dict and the list of the table are objects: default_value.get(key_type)
\* hands out the object itself, and a document that received it holds a
\* reference to the entry of the table, not a copy.  The other defaults are
\* immutable values.
Shared(key_type) == [JNull EXCEPT !.ty = "shared", !.text = key_type]

\* default_value.get(key_type)
table_get(table, key_type) ==
    IF table[key_type].ty \in {"object", "array"} THEN Shared(key_type)
    ELSE table[key_type]

\* the object a value of a document stands for
deref(value, table) == IF value.ty = "shared" THEN table[value.text] ELSE value

\* the dict of the table holds itself: json.dumps raises ValueError
\* ("Circular reference detected") on a document that holds the dict
has_cycle(table) ==
    \E key \in DOMAIN table[" 'object'"].members :
        table[" 'object'"].members[key] = Shared(" 'object'")

\* the document with every reference replaced by what it stands for
RECURSIVE resolve(_, _)
resolve(j, table) ==
    CASE j.ty = "shared" -> resolve(table[j.text], table)
      [] j.ty = "array" ->
            [j EXCEPT !.elems = [n \in 1..Len(j.elems) |-> resolve(j.elems[n], table)]]
      [] j.ty = "object" ->
            [j EXCEPT !.members =
                [key \in DOMAIN j.members |-> resolve(j.members[key], table)]]
      [] OTHER -> j

\* the document holds a reference to the dict of the table
RECURSIVE holds_shared_dict(_)
holds_shared_dict(j) ==
    CASE j.ty = "shared" -> j.text = " 'object'"
      [] j.ty = "array" -> \E n \in 1..Len(j.elems) : holds_shared_dict(j.elems[n])
      [] j.ty = "object" ->
            \E key \in DOMAIN j.members : holds_shared_dict(j.members[key])
      [] OTHER -> FALSE

\* texts as sequences of pieces: `piece in text`, text.find(piece) (from 1),
\* text.split("."), the text itself and int(text) of one decimal digit
has_piece(text, piece) == \E n \in 1..Len(text) : text[n] = piece

find_piece(text, piece) ==
    CHOOSE n \in 1..Len(text) :
        text[n] = piece /\ \A m \in 1..n - 1 : text[m] # piece

RECURSIVE split_on_dot(_)
split_on_dot(text) ==
    IF ~has_piece(text, ".") THEN <<text>>
    ELSE LET dot == find_piece(text, ".")
         IN  <<SubSeq(text, 1, dot - 1)>> \o split_on_dot(SubSeq(text, dot + 1, Len(text)))

RECURSIVE join_pieces(_)
join_pieces(text) ==
    IF text = <<>> THEN "" ELSE Head(text) \o join_pieces(Tail(text))

is_digit(text) == Len(text) = 1 /\ \E n \in 0..9 : ToString(n) = text[1]
int_of(text) == CHOOSE n \in 0..9 : ToString(n) = text[1]

\* `"[" in name and "]" in name`
has_brackets(name) == has_piece(name, "[") /\ has_piece(name, "]")

\* lines 846-852; raised: int() does not accept the text between the brackets
process_array(name) ==
    LET bracket_left_index == find_piece(name, "[")
        bracket_right_index == find_piece(name, "]")
        between == SubSeq(name, bracket_left_index + 1, bracket_right_index - 1)
    IN  [raised |-> ~is_digit(between),
         array_name |-> join_pieces(SubSeq(name, 1, bracket_left_index - 1)),
         array_index |-> IF is_digit(between) THEN int_of(between) ELSE 0]

\* root.get(array_name)[array_index] can be evaluated: root is a dict whose
\* entry array_name is a list that has the index
has_item(root, array_name, array_index, table) ==
    /\ root.ty = "object"
    /\ array_name \in DOMAIN root.members
    /\ deref(root.members[array_name], table).ty = "array"
    /\ array_index + 1 <= Len(deref(root.members[array_name], table).elems)

Raised(table) == [raised |-> TRUE, root |-> JNull, table |-> table]

\* lines 267-293 for a default that exists: the walk down root along
\* path_list but its last piece, then the assignment at the last piece.  The
\* code updates in place the object the walk arrived at; here the updated
\* document and the updated table are built.  at: "" when root is a part of
\* the document, the key of the table when the walk has entered the dict or
\* the list of the table (which hold defaults only, never a container of
\* their own).  raised: a step of the walk or the assignment raises.
\* the outcome of an assignment that turned the object root, which is the
\* entry at of the table unless at is "", into changed
stored_as(changed, table, at) ==
    [raised |-> FALSE, root |-> changed,
     table |-> IF at = "" THEN table ELSE [table EXCEPT ![at] = changed]]

\* the outcome of one step of the walk: what the step below gave, written
\* back where the step found the value it went on from
written_back(root, path_list, table, at, array, found, below) ==
    IF below.raised THEN Raised(table)
    ELSE IF found.ty = "shared"
    THEN [raised |-> FALSE,
          root |-> IF at = "" THEN root ELSE below.table[at],
          table |-> below.table]
    ELSE [raised |-> FALSE,
          root |-> IF has_brackets(Head(path_list))
                   THEN [root EXCEPT
                           !.members[array.array_name].elems[array.array_index + 1]
                               = below.root]
                   ELSE [root EXCEPT !.members[join_pieces(Head(path_list))] = below.root],
          table |-> below.table]

\* one step of the walk, or the assignment, at the piece path_ of the path;
\* array is process_array(path_) and name is the piece as a key
RECURSIVE assign_default(_, _, _, _, _), assign_at(_, _, _, _, _, _, _), descend(_, _, _, _, _, _, _)
assign_default(root, path_list, value, table, at) ==
    assign_at(root, path_list, value, table, at,
              process_array(Head(path_list)), join_pieces(Head(path_list)))

assign_at(root, path_list, value, table, at, array, name) ==
    IF Len(path_list) = 1
    THEN IF has_brackets(Head(path_list))
         THEN IF array.raised
                 \/ ~has_item(root, array.array_name, array.array_index, table)
              THEN Raised(table)
              ELSE IF root.members[array.array_name].ty = "shared"
              THEN [raised |-> FALSE, root |-> root,
                    table |-> [table EXCEPT
                        ![root.members[array.array_name].text]
                            .elems[array.array_index + 1] = value]]
              ELSE stored_as([root EXCEPT
                        !.members[array.array_name].elems[array.array_index + 1] = value],
                        table, at)
         ELSE IF root.ty # "object"
              THEN Raised(table)
              ELSE stored_as([root EXCEPT !.members = (name :> value) @@ root.members],
                             table, at)
    ELSE IF has_brackets(Head(path_list))
         THEN IF array.raised
                 \/ ~has_item(root, array.array_name, array.array_index, table)
                 \/ root.members[array.array_name].ty = "shared"
              THEN Raised(table)
              ELSE descend(root, path_list, value, table, at, array,
                           root.members[array.array_name].elems[array.array_index + 1])
         ELSE IF root.ty # "object" \/ name \notin DOMAIN root.members
              THEN Raised(table)
              ELSE descend(root, path_list, value, table, at, array, root.members[name])

\* the walk goes on from the value found: into the table when it is one of
\* the table's objects, into the document otherwise
descend(root, path_list, value, table, at, array, found) ==
    IF found.ty = "shared"
    THEN written_back(root, path_list, table, at, array, found,
             assign_default(table[found.text], Tail(path_list), value, table, found.text))
    ELSE written_back(root, path_list, table, at, array, found,
             assign_default(found, Tail(path_list), value, table, ""))

\* the loop over errs from error n on; acc carries er_msgs, result_json (which
\* the loop repairs in place), the table of defaults and whether the loop
\* raised
RECURSIVE repair_from(_, _, _), repair_at(_, _, _, _, _), repaired(_, _, _, _)
repair_from(errs, n, acc) ==
    IF n > Len(errs) \/ acc.raised THEN acc
    ELSE repair_at(errs, n, acc, errs[n], Tail(split_on_dot(errs[n].json_path)))

\* lines 262-297 for the error err, path_list being err.json_path.split(".")[1:]
repair_at(errs, n, acc, err, path_list) ==
    IF err.message[1] = "None" /\ err.message[2] = " is not of type"
    THEN IF path_list = <<>>
         THEN [acc EXCEPT !.raised = TRUE]
         ELSE IF err.message[3] \in DOMAIN acc.table
         THEN repaired(errs, n, acc,
                       assign_default(acc.result_json, path_list,
                                      table_get(acc.table, err.message[3]), acc.table, ""))
         ELSE repair_from(errs, n + 1, [acc EXCEPT !.er_msgs = Append(acc.er_msgs, err)])
    ELSE repair_from(errs, n + 1, [acc EXCEPT !.er_msgs = Append(acc.er_msgs, err)])

\* the loop after the assignment for error n
repaired(errs, n, acc, assigned) ==
    IF assigned.raised
    THEN [acc EXCEPT !.raised = TRUE]
    ELSE repair_from(errs, n + 1,
             [acc EXCEPT !.result_json = assigned.root, !.table = assigned.table])

\* lines 250-298 with the table of defaults as the call finds it; the outcome
\* gives the table as the call leaves it
validate_response_schema(result_json, open_api_schema, table) ==
    LET response_schema == get_response_schema(open_api_schema)
        errs == iter_errors(result_json, response_schema, <<"$">>)
    IN  repair_from(errs, 1,
            [raised |-> FALSE, er_msgs |-> <<>>, result_json |-> result_json,
             table |-> table])

\* ";".join(er_msgs), each message giving err.json_path and err.message
RECURSIVE join_msgs(_)
join_msgs(er_msgs) ==
    IF er_msgs = <<>> THEN <<>>
    ELSE Head(er_msgs).json_path \o Head(er_msgs).message \o join_msgs(Tail(er_msgs))

\* process_http_result, but a body that json.loads rejects is an error
process_http_result_rejects_text(result, open_api_schema, table) ==
    [raised |-> json_loads(result).raised,
     response |-> handle_success_response(result),
     table |-> table]

\* json.loads(result), or result itself when json.loads raises (lines 461-465)
loaded_or_text(result, loaded) == IF loaded.raised THEN JStr(result) ELSE loaded.value

\* lines 467-489: what becomes of the outcome of validate_response_schema.
\* raised: an exception left validate_response_schema or json.dumps; table:
\* the table of defaults as the call leaves it
validated(checked) ==
    IF checked.raised
    THEN [raised |-> TRUE, response |-> PyNone, table |-> checked.table]
    ELSE IF checked.er_msgs # <<>>
    THEN [raised |-> FALSE,
          response |-> handle_custom_error(RESPONSE_SCHEMA_VALIDATE_ERR,
                           <<"RESPONSE_SCHEMA_VALIDATE_ERR.msg">>
                           \o join_msgs(checked.er_msgs)),
          table |-> checked.table]
    ELSE IF holds_shared_dict(checked.result_json) /\ has_cycle(checked.table)
    THEN [raised |-> TRUE, response |-> PyNone, table |-> checked.table]
    ELSE [raised |-> FALSE,
          response |-> handle_success_response(
                           json_dumps(resolve(checked.result_json, checked.table))),
          table |-> checked.table]

\* lines 451-489 with the table of defaults as the call finds it
process_http_result(result, open_api_schema, table) ==
    validated(validate_response_schema(loaded_or_text(result, json_loads(result)),
                                       open_api_schema, table))

(***************************************************************************)
(* http_run: the requests and the steps of one invocation                  *)
(***************************************************************************)
HttpRunRequests ==
    {[wellformed |-> w,
      parameter |-> [tool_id |-> "t1", operation_id |-> o, version |-> v],
      payload |-> [message |-> m]] :
        w \in BOOLEAN, o \in {"getUser", "noSuchOp"},
        v \in {PyNone, "", "V2.0"}, m \in Messages}

\* api_validate(get_http_run_schema(), run_params_list): the error text, if any
api_validate(run_params_list) ==
    IF run_params_list.wellformed THEN "" ELSE "validate_err"

NoParams == [tool_id |-> "", operation_id |-> "", version |-> ""]
NoTool == [operation_id_schema |-> NoContract, tool_type |-> "",
           open_api_schema |-> NoDocument]
NoHttpRun == setup_http_request(NoContract, EmptyDict, EmptyDict, EmptyDict, EmptyDict)
NoHttpResponse == [code |-> "none", message |-> <<>>, payload |-> EmptyDict]
\* do_call has not come back
NoResult == [raised |-> "pending", result |-> ""]

\* no MCP invocation is in progress
McpIdle ==
    /\ req = PyNone
    /\ pc = "idle"
    /\ k = 0
    /\ cur = NoTarget
    /\ url = ""
    /\ transportOpen = FALSE
    /\ sessionOpen = FALSE
    /\ pending = NoPending
    /\ items = <<>>
    /\ response = NoResponse
    /\ calls = <<>>

\* http_run is called in a process whose OTLP_ENABLE setting is `enabled`
HttpStart(enabled) ==
    /\ run_params \in HttpRunRequests
    /\ stored \in StoredTools
    /\ http_pc = "validate"
    /\ params = NoParams
    /\ tool = NoTool
    /\ http_inst = NoHttpRun
    /\ sent = <<>>
    /\ call_result = NoResult
    /\ http_response = NoHttpResponse
    /\ otlp_enable = enabled
    /\ intended = NoHttpResponse
    /\ default_value = ImportedDefaults
    /\ McpIdle
    /\ TasksIdle

\* OTLP_ENABLE is not set: its default "0", no telemetry is produced
HttpInit == HttpStart(FALSE)

\* OTLP_ENABLE is "1": every handler counts a metric and sends the trace
TelemetryInit == HttpStart(TRUE)

\* how the telemetry of one handler call ends: m.in_error_count /
\* m.in_success_count and send_telemetry return, or one of them raises
Deliveries == IF otlp_enable THEN {"delivered", "raised"} ELSE {"off"}

\* a handler called where no try encloses it, or in an except clause: it
\* returns its envelope, or the exception of its telemetry leaves http_run
handler_result(envelope, delivery) ==
    IF delivery = "raised"
    THEN [pc |-> "raised", response |-> NoHttpResponse]
    ELSE [pc |-> "done", response |-> envelope]

\* a handler called inside the try of handle_request_execution: the
\* exception of its telemetry is caught at line 656, where
\* handle_general_exception runs its own telemetry
handler_result_in_try(envelope, first, second) ==
    IF first = "raised"
    THEN handler_result(handle_general_exception(<<"telemetry error">>), second)
    ELSE [pc |-> "done", response |-> envelope]

\* ValidateAndGetParams, but the answer of api_validate is not looked at
ValidateAndGetParamsIgnoresError ==
    /\ http_pc = "validate"
    /\ LET version == run_params.parameter.version
       IN  params' = [tool_id |-> run_params.parameter.tool_id,
                      operation_id |-> run_params.parameter.operation_id,
                      version |-> IF version = PyNone \/ version = ""
                                  THEN DEF_VER ELSE version]
    /\ http_pc' = "resolve"
    /\ UNCHANGED <<run_params, stored, tool, http_inst, sent, call_result,
                   http_response, otlp_enable, intended, default_value>>
    /\ UNCHANGED <<mcpVars, taskVars>>

\* http_run up to line 733, with validate_and_get_params (lines 577-597)
ValidateAndGetParams ==
    /\ http_pc = "validate"
    /\ LET validate_err == api_validate(run_params)
           version == run_params.parameter.version
       IN  IF validate_err # ""
           THEN /\ \E delivery \in Deliveries :
                      LET end == handler_result(
                                     handle_validation_error(validate_err), delivery)
                      IN  /\ http_response' = end.response
                          /\ http_pc' = end.pc
                /\ intended' = handle_validation_error(validate_err)
                /\ UNCHANGED params
           ELSE /\ params' = [tool_id |-> run_params.parameter.tool_id,
                              operation_id |-> run_params.parameter.operation_id,
                              version |-> IF version = PyNone \/ version = ""
                                          THEN DEF_VER ELSE version]
                /\ http_pc' = "resolve"
                /\ UNCHANGED <<http_response, intended>>
    /\ UNCHANGED <<run_params, stored, tool, http_inst, sent, call_result, otlp_enable,
                   default_value>>
    /\ UNCHANGED <<mcpVars, taskVars>>

\* GetToolSchema, but a missing operation is reported as a missing tool
GetToolSchemaConfusesKinds ==
    /\ http_pc = "resolve"
    /\ CASE stored.outcome = "SparkLinkBaseException" ->
              LET envelope == handle_sparklink_error(
                                  [code |-> SparkLinkCode, message |-> "err.message"])
              IN  /\ \E delivery \in Deliveries :
                        /\ http_response' = handler_result(envelope, delivery).response
                        /\ http_pc' = handler_result(envelope, delivery).pc
                  /\ intended' = envelope
                  /\ UNCHANGED tool
         [] stored.outcome = "Exception" ->
              \* not a SparkLinkBaseException: it leaves execute_http_request
              \* and http_run
              /\ http_pc' = "raised"
              /\ UNCHANGED <<tool, http_response, intended>>
         [] stored.outcome = "no_rows" ->
              LET envelope == handle_custom_error(TOOL_NOT_EXIST_ERR,
                                  <<params.tool_id, " does not exist">>)
              IN  /\ \E delivery \in Deliveries :
                        /\ http_response' = handler_result(envelope, delivery).response
                        /\ http_pc' = handler_result(envelope, delivery).pc
                  /\ intended' = envelope
                  /\ UNCHANGED tool
         [] stored.outcome = "rows" /\ stored.flaw \in StoredFlaws ->
              \* json.loads raises JSONDecodeError, .get("info") gives None
              \* and None.get raises AttributeError: neither is caught
              /\ http_pc' = "raised"
              /\ UNCHANGED <<tool, http_response, intended>>
         [] stored.outcome = "rows" /\ stored.flaw = "" ->
              LET open_api_schema == stored.doc
                  tool_type == IF open_api_schema.official
                               THEN "OFFICIAL_TOOL" ELSE "THIRD_TOOL"
                  tool_id_schema == schema_parser(open_api_schema)
                  envelope == handle_custom_error(TOOL_NOT_EXIST_ERR,
                                  <<"operation_id: ", params.operation_id,
                                    " does not exist">>)
              IN  IF params.operation_id \notin DOMAIN tool_id_schema
                  THEN /\ \E delivery \in Deliveries :
                             /\ http_response' =
                                    handler_result(envelope, delivery).response
                             /\ http_pc' = handler_result(envelope, delivery).pc
                       /\ intended' = envelope
                       /\ UNCHANGED tool
                  ELSE /\ tool' = [operation_id_schema |->
                                       tool_id_schema[params.operation_id],
                                   tool_type |-> tool_type,
                                   open_api_schema |-> open_api_schema]
                       /\ http_pc' = "execute"
                       /\ UNCHANGED <<http_response, intended>>
    /\ UNCHANGED <<run_params, stored, params, http_inst, sent, call_result,
                   otlp_enable, default_value>>
    /\ UNCHANGED <<mcpVars, taskVars>>

\* execute_http_request up to line 704, with get_tool_schema (lines 537-574)
GetToolSchema ==
    /\ http_pc = "resolve"
    /\ CASE stored.outcome = "SparkLinkBaseException" ->
              LET envelope == handle_sparklink_error(
                                  [code |-> SparkLinkCode, message |-> "err.message"])
              IN  /\ \E delivery \in Deliveries :
                        /\ http_response' = handler_result(envelope, delivery).response
                        /\ http_pc' = handler_result(envelope, delivery).pc
                  /\ intended' = envelope
                  /\ UNCHANGED tool
         [] stored.outcome = "Exception" ->
              \* not a SparkLinkBaseException: it leaves execute_http_request
              \* and http_run
              /\ http_pc' = "raised"
              /\ UNCHANGED <<tool, http_response, intended>>
         [] stored.outcome = "no_rows" ->
              LET envelope == handle_custom_error(TOOL_NOT_EXIST_ERR,
                                  <<params.tool_id, " does not exist">>)
              IN  /\ \E delivery \in Deliveries :
                        /\ http_response' = handler_result(envelope, delivery).response
                        /\ http_pc' = handler_result(envelope, delivery).pc
                  /\ intended' = envelope
                  /\ UNCHANGED tool
         [] stored.outcome = "rows" /\ stored.flaw \in StoredFlaws ->
              \* json.loads raises JSONDecodeError, .get("info") gives None
              \* and None.get raises AttributeError: neither is caught
              /\ http_pc' = "raised"
              /\ UNCHANGED <<tool, http_response, intended>>
         [] stored.outcome = "rows" /\ stored.flaw = "" ->
              LET open_api_schema == stored.doc
                  tool_type == IF open_api_schema.official
                               THEN "OFFICIAL_TOOL" ELSE "THIRD_TOOL"
                  tool_id_schema == schema_parser(open_api_schema)
                  envelope == handle_custom_error(OPERATION_ID_NOT_EXIST_ERR,
                                  <<"operation_id: ", params.operation_id,
                                    " does not exist">>)
              IN  IF params.operation_id \notin DOMAIN tool_id_schema
                  THEN /\ \E delivery \in Deliveries :
                             /\ http_response' =
                                    handler_result(envelope, delivery).response
                             /\ http_pc' = handler_result(envelope, delivery).pc
                       /\ intended' = envelope
                       /\ UNCHANGED tool
                  ELSE /\ tool' = [operation_id_schema |->
                                       tool_id_schema[params.operation_id],
                                   tool_type |-> tool_type,
                                   open_api_schema |-> open_api_schema]
                       /\ http_pc' = "execute"
                       /\ UNCHANGED <<http_response, intended>>
    /\ UNCHANGED <<run_params, stored, params, http_inst, sent, call_result,
                   otlp_enable, default_value>>
    /\ UNCHANGED <<mcpVars, taskVars>>

\* handle_request_execution, lines 611-640: from the decoding of the fragments
\* to the start of do_call; an exception ends the invocation in the except
\* clauses of lines 618-630 and 656-659
BuildRequest ==
    /\ http_pc = "execute"
    /\ LET message == run_params.payload.message
           decoded == process_message_params(message)
           auth == process_authentication(tool.operation_id_schema,
                                          decoded.message_header,
                                          decoded.message_query)
           inst == setup_http_request(tool.operation_id_schema,
                                      auth.message_header, auth.message_query,
                                      decoded.path, decoded.body)
           \* the envelope, and whether its handler is called inside the try
           \* (line 621) or in the except clause of line 656
           envelope ==
               IF decoded.raised THEN handle_general_exception(<<"decode error">>)
               ELSE IF mentions_security_type(auth.raised)
               THEN handle_custom_error(OPENAPI_AUTH_TYPE_ERR,
                                        <<"OPENAPI_AUTH_TYPE_ERR.msg">>)
               ELSE handle_general_exception(auth.raised)
           in_try == ~decoded.raised /\ mentions_security_type(auth.raised)
       IN  IF decoded.raised \/ auth.raised # <<>>
           THEN /\ \E first, second \in Deliveries :
                      LET end == IF in_try
                                 THEN handler_result_in_try(envelope, first, second)
                                 ELSE handler_result(envelope, first)
                      IN  /\ http_response' = end.response
                          /\ http_pc' = end.pc
                /\ intended' = envelope
                /\ UNCHANGED <<http_inst, sent>>
           ELSE /\ http_inst' = inst
                /\ sent' = Append(sent, inst)
                /\ http_pc' = "do_call"
                /\ UNCHANGED <<http_response, intended>>
    /\ UNCHANGED <<run_params, stored, params, tool, call_result, otlp_enable,
                   default_value>>
    /\ UNCHANGED <<mcpVars, taskVars>>

\* what `await http_inst.do_call(span_context)` comes back with
DoCallOutcomes ==
    {[raised |-> "", result |-> text] : text \in ResponseTexts}
    \cup {[raised |-> e, result |-> ""] : e \in {"SparkLinkBaseException", "Exception"}}

\* DoCall, but a call that raised is made again (once)
DoCallRetriesAfterFailure ==
    /\ http_pc = "do_call"
    /\ \/ /\ Len(sent) < 2
          /\ \E out \in DoCallOutcomes :
                /\ out.raised = "Exception"
                /\ call_result' = out
          /\ sent' = Append(sent, http_inst)
          /\ UNCHANGED <<run_params, stored, http_pc, params, tool, http_inst,
                         http_response, otlp_enable, intended, default_value>>
          /\ UNCHANGED <<mcpVars, taskVars>>
       \/ /\ \E out \in DoCallOutcomes :
                LET processed == process_http_result(out.result, tool.open_api_schema,
                                                    default_value)
                    envelope ==
                         CASE out.raised = "SparkLinkBaseException" ->
                                 handle_sparklink_error(
                                     [code |-> SparkLinkCode, message |-> "err.message"])
                           [] out.raised = "Exception" ->
                                 handle_general_exception(<<"do_call error">>)
                           [] OTHER ->
                                 IF processed.raised
                                 THEN handle_general_exception(<<"repair fault">>)
                                 ELSE processed.response
                    \* the handlers of process_http_result are called inside the
                    \* try, the others in the except clauses of lines 652-659
                    in_try == out.raised = "" /\ ~processed.raised
                IN  /\ call_result' = out
                    /\ default_value' = IF out.raised = "" THEN processed.table
                                        ELSE default_value
                    /\ \E first, second \in Deliveries :
                          LET end == IF in_try
                                     THEN handler_result_in_try(envelope, first, second)
                                     ELSE handler_result(envelope, first)
                          IN  /\ http_response' = end.response
                              /\ http_pc' = end.pc
                    /\ intended' = envelope
          /\ UNCHANGED <<run_params, stored, params, tool, http_inst, sent, otlp_enable>>
          /\ UNCHANGED <<mcpVars, taskVars>>

\* handle_request_execution, lines 640-659: do_call returns or raises, then
\* process_http_result
DoCall ==
    /\ http_pc = "do_call"
    /\ \E out \in DoCallOutcomes :
          LET processed == process_http_result(out.result, tool.open_api_schema,
                                                    default_value)
              envelope ==
                   CASE out.raised = "SparkLinkBaseException" ->
                           handle_sparklink_error(
                               [code |-> SparkLinkCode, message |-> "err.message"])
                     [] out.raised = "Exception" ->
                           handle_general_exception(<<"do_call error">>)
                     [] OTHER ->
                           IF processed.raised
                           THEN handle_general_exception(<<"repair fault">>)
                           ELSE processed.response
              \* the handlers of process_http_result are called inside the
              \* try, the others in the except clauses of lines 652-659
              in_try == out.raised = "" /\ ~processed.raised
          IN  /\ call_result' = out
              /\ default_value' = IF out.raised = "" THEN processed.table
                                  ELSE default_value
              /\ \E first, second \in Deliveries :
                    LET end == IF in_try
                               THEN handler_result_in_try(envelope, first, second)
                               ELSE handler_result(envelope, first)
                    IN  /\ http_response' = end.response
                        /\ http_pc' = end.pc
              /\ intended' = envelope
    /\ UNCHANGED <<run_params, stored, params, tool, http_inst, sent, otlp_enable>>
    /\ UNCHANGED <<mcpVars, taskVars>>

HttpNext ==
    \/ ValidateAndGetParams
    \/ GetToolSchema
    \/ BuildRequest
    \/ DoCall

\* http_run in a process without telemetry (OTLP_ENABLE at its default)
SpecHttp == HttpInit /\ [][HttpNext]_vars

\* http_run in a process with telemetry (OTLP_ENABLE = "1")
SpecTelemetry == TelemetryInit /\ [][HttpNext]_vars

(***************************************************************************)
(* Reading the state of an http_run invocation                             *)
(***************************************************************************)
\* the contract of the operation was resolved
Resolved == http_pc \in {"execute", "do_call", "done"} /\ tool # NoTool

\* http_run returned an envelope
Returned == http_pc = "done"

\* every fragment of the request decodes
FragmentsDecode == ~process_message_params(run_params.payload.message).raised

\* the contract declares security
DeclaresSecurity == DOMAIN tool.operation_id_schema.security # {}

\* ... and its security_type names an entry of it
EntryResolved ==
    /\ DeclaresSecurity
    /\ tool.operation_id_schema.security_type
           \in DOMAIN tool.operation_id_schema.security

ResolvedEntry ==
    tool.operation_id_schema.security[tool.operation_id_schema.security_type]

\* the envelope of a failure: an error code and payload = {}
Failed(codes) ==
    /\ http_response.code \in codes
    /\ http_response.payload = EmptyDict

\* the resolved entry lacks a credential name or a credential value
EntryIncomplete ==
    \/ falsy(dict_get(ResolvedEntry, "name", PyNone))
    \/ falsy(dict_get(ResolvedEntry, "x-value", PyNone))

\* the text of the exception of line 240 for the resolved entry
AuthText ==
    <<"auth name:", py_str(dict_get(ResolvedEntry, "name", PyNone)),
      ", auth value:", py_str(dict_get(ResolvedEntry, "x-value", PyNone))>>

(***************************************************************************)
(* C8.  If the contract declares a non-empty security section and its      *)
(* security_type names no entry of it, the invocation fails with           *)
(* AuthTypeError (OPENAPI_AUTH_TYPE_ERR) and an empty payload, and no       *)
(* outbound call is made.                                                  *)
(***************************************************************************)
C8_MissingTypeIsAuthTypeError ==
    (Resolved /\ DeclaresSecurity /\ ~EntryResolved) =>
        /\ sent = <<>>
        /\ Returned => Failed({OPENAPI_AUTH_TYPE_ERR})

\* C8 as the code has it: the fragments are decoded before the security
\* section is looked at, so the failure is AuthTypeError exactly when every
\* fragment decodes, and the unclassified error (COMMON_ERR) of the decoding
\* otherwise; in both cases the payload is empty and no outbound call is made.
C8_MissingTypeFailsBeforeCall ==
    (Resolved /\ DeclaresSecurity /\ ~EntryResolved) =>
        /\ sent = <<>>
        /\ http_pc # "do_call"
        /\ Returned =>
              /\ Failed({OPENAPI_AUTH_TYPE_ERR, COMMON_ERR})
              /\ http_response.code = OPENAPI_AUTH_TYPE_ERR <=> FragmentsDecode

C8_Witness ==
    /\ Returned /\ Resolved /\ DeclaresSecurity /\ ~EntryResolved
    /\ FragmentsDecode
    /\ http_response.code = OPENAPI_AUTH_TYPE_ERR
    /\ sent = <<>>

C10_UnsupportedKindFailsLoudly ==
    (/\ Resolved /\ EntryResolved /\ ~EntryIncomplete
     /\ dict_get(ResolvedEntry, "type", PyNone) # "apiKey") =>
        /\ sent = <<>>
        /\ Returned => http_response.code # SUCCESSES

(***************************************************************************)
(* Reading the built request                                               *)
(***************************************************************************)
\* do_call was started, with the request sent[1]
Built == Len(sent) = 1

\* the caller's fragments, decoded
Decoded == process_message_params(run_params.payload.message)

\* the resolved entry is a complete apiKey credential at the location loc
ApiKeyAt(loc) ==
    /\ EntryResolved /\ ~EntryIncomplete
    /\ dict_get(ResolvedEntry, "type", PyNone) = "apiKey"
    /\ dict_get(ResolvedEntry, "in", PyNone) = loc

AuthName == ResolvedEntry["name"]
AuthValue == ResolvedEntry["x-value"]

(***************************************************************************)
(* C11.  For an apiKey scheme located in header the header of the built    *)
(* request has exactly one key more than the decoded caller header, the    *)
(* declared auth name mapped to the declared value, while query, path and  *)
(* body equal the decoded caller fragments.                                *)
(***************************************************************************)
C11_HeaderGainsExactlyOneKey ==
    (Built /\ ApiKeyAt("header")) =>
        /\ Cardinality(DOMAIN sent[1].header)
              = Cardinality(DOMAIN Decoded.message_header) + 1
        /\ AuthName \in DOMAIN sent[1].header
        /\ sent[1].header[AuthName] = AuthValue
        /\ sent[1].query = Decoded.message_query
        /\ sent[1].path = Decoded.path
        /\ sent[1].body = Decoded.body

\* C11 as the code has it: the built header is the caller's header with the
\* auth name set to the declared value; it has one key more exactly when the
\* caller's header does not hold that name already (otherwise the caller's
\* entry is overwritten and the number of keys is the same).
C11_HeaderIsCallerHeaderWithCredential ==
    (Built /\ ApiKeyAt("header")) =>
        /\ DOMAIN sent[1].header = DOMAIN Decoded.message_header \cup {AuthName}
        /\ sent[1].header[AuthName] = AuthValue
        /\ \A key \in DOMAIN Decoded.message_header \ {AuthName} :
              sent[1].header[key] = Decoded.message_header[key]
        /\ Cardinality(DOMAIN sent[1].header)
              = Cardinality(DOMAIN Decoded.message_header)
                + (IF AuthName \in DOMAIN Decoded.message_header THEN 0 ELSE 1)
        /\ sent[1].query = Decoded.message_query
        /\ sent[1].path = Decoded.path
        /\ sent[1].body = Decoded.body

C11_Witness ==
    /\ Built /\ ApiKeyAt("header")
    /\ DOMAIN Decoded.message_header = {"Accept"}
    /\ DOMAIN sent[1].header = {"Accept", AuthName}
    /\ DOMAIN Decoded.message_query # {}
    /\ sent[1].query = Decoded.message_query

(***************************************************************************)
(* C12.  For an apiKey scheme the credential {name: value} is merged into  *)
(* header exactly when the declared location is header and into query      *)
(* exactly when it is query; in no built request is it merged into both.   *)
(***************************************************************************)
Credential == (AuthName :> AuthValue)

IsApiKey ==
    /\ EntryResolved /\ ~EntryIncomplete
    /\ dict_get(ResolvedEntry, "type", PyNone) = "apiKey"

C12_MergedAtDeclaredLocationOnly ==
    (Built /\ IsApiKey) =>
        /\ sent[1].header = IF ApiKeyAt("header")
                            THEN Credential @@ Decoded.message_header
                            ELSE Decoded.message_header
        /\ sent[1].query = IF ApiKeyAt("query")
                           THEN Credential @@ Decoded.message_query
                           ELSE Decoded.message_query
        /\ ~(/\ sent[1].header # Decoded.message_header
             /\ sent[1].query # Decoded.message_query)

C12_Witness ==
    /\ Built /\ ApiKeyAt("query")
    /\ DOMAIN Decoded.message_header # {}
    /\ sent[1].header = Decoded.message_header
    /\ AuthName \in DOMAIN sent[1].query
    /\ AuthName \notin DOMAIN Decoded.message_query

(***************************************************************************)
(* C13.  For a contract with no security scheme the header, query, path    *)
(* and body of the built request equal the decoded caller fragments, and   *)
(* server_url and method are those of the contract.                        *)
(***************************************************************************)
C13_NoSecurityLeavesFragmentsAlone ==
    (Built /\ ~DeclaresSecurity) =>
        /\ sent[1].header = Decoded.message_header
        /\ sent[1].query = Decoded.message_query
        /\ sent[1].path = Decoded.path
        /\ sent[1].body = Decoded.body
        /\ sent[1].server = tool.operation_id_schema.server_url
        /\ sent[1].method = tool.operation_id_schema.method

C13_Witness ==
    /\ Built /\ Resolved /\ ~DeclaresSecurity
    /\ DOMAIN Decoded.message_header # {}
    /\ DOMAIN Decoded.message_query # {}
    /\ DOMAIN Decoded.body # {}
    /\ sent[1].header = Decoded.message_header
    /\ sent[1].body = Decoded.body

(***************************************************************************)
(* Reading the answer of the remote tool                                   *)
(***************************************************************************)
\* do_call returned a body and http_run returned its envelope
GotBody == Returned /\ Built /\ call_result.raised = ""

\* the value that is validated: the decoded body, or the raw text
Received ==
    LET loaded == json_loads(call_result.result)
    IN  IF loaded.raised THEN JStr(call_result.result) ELSE loaded.value

\* the schema the response is validated against
UsedSchema == get_response_schema(tool.open_api_schema)

IsNullError(err) == err.message[1] = "None" /\ err.message[2] = " is not of type"

Violations == iter_errors(Received, UsedSchema, <<"$">>)

\* a violation that is not a null where a type is required
OtherViolation == \E n \in 1..Len(Violations) : ~IsNullError(Violations[n])

\* the text of the Success payload
PayloadText == http_response.payload["text"]["text"]

\* the default that replaces a null of the given type
RepairDefault(type) ==
    CASE type = "string" -> JStr("")
      [] type \in {"number", "integer"} -> JNum(0)
      [] type = "object" -> JObj(EmptyDict)
      [] type = "array" -> JArr(<<>>)
      [] type = "boolean" -> JBool(FALSE)

RepairableTypes == {"string", "number", "integer", "object", "array", "boolean"}

\* the document j with every null that the schema types replaced by the
\* default of its type, the rest of j as it is
RECURSIVE NullsRepaired(_, _)
NullsRepaired(j, schema) ==
    IF j.ty = "null"
    THEN IF "type" \in DOMAIN schema /\ schema.type \in RepairableTypes
         THEN RepairDefault(schema.type) ELSE j
    ELSE IF j.ty = "object" /\ "properties" \in DOMAIN schema
    THEN [j EXCEPT !.members =
            [key \in DOMAIN j.members |->
                IF key \in DOMAIN schema.properties
                THEN NullsRepaired(j.members[key], schema.properties[key])
                ELSE j.members[key]]]
    ELSE IF j.ty = "array" /\ "items" \in DOMAIN schema
    THEN [j EXCEPT !.elems =
            [n \in 1..Len(j.elems) |-> NullsRepaired(j.elems[n], schema.items)]]
    ELSE j

HasTypedNull == NullsRepaired(Received, UsedSchema) # Received

(***************************************************************************)
(* C14.  When a field that the schema types as string, number, integer,    *)
(* object, array or boolean is null in the response, repair sets it to     *)
(* "", 0, 0, {}, [] or false and the violation is not reported; when there *)
(* is no other violation the invocation returns Success and the payload    *)
(* text is the repaired document.                                          *)
(***************************************************************************)
C14_TypedNullsRepaired ==
    (GotBody /\ HasTypedNull) =>
        /\ ~has_piece(http_response.message, "None")
        /\ ~OtherViolation =>
              /\ http_response.code = SUCCESSES
              /\ PayloadText = json_dumps(NullsRepaired(Received, UsedSchema))

\* text holds the pieces of part, next to each other and in order
contains(text, part) ==
    \E offset \in 0..(Len(text) - Len(part)) :
        SubSeq(text, offset + 1, offset + Len(part)) = part

(***************************************************************************)
(* C15.  A violation other than a null where a type is required is not     *)
(* repaired: the invocation returns ResponseSchemaViolation with an empty  *)
(* payload and a message that contains the json_path of the violation.     *)
(***************************************************************************)
C15_OtherViolationsReported ==
    (GotBody /\ OtherViolation) =>
        /\ http_response.code = RESPONSE_SCHEMA_VALIDATE_ERR
        /\ http_response.payload = EmptyDict
        /\ \A n \in 1..Len(Violations) :
              ~IsNullError(Violations[n]) =>
                  contains(http_response.message, Violations[n].json_path)

\* a violation that repair cannot take away: anything but a null where one
\* of the six types is required
IsIrreparable(err) == ~(IsNullError(err) /\ err.message[3] \in DOMAIN ImportedDefaults)

\* the irreparable violations of the received document, in validator order
Irreparable == SelectSeq(Violations, IsIrreparable)

(***************************************************************************)
(* C16.  When the outbound call returned a body, the invocation yields     *)
(* Success with the serialization of the repaired document as payload text *)
(* if and only if there is no irreparable violation, and otherwise         *)
(* ResponseSchemaViolation with the joined messages; every failure result  *)
(* of http_run has the empty object as payload.                            *)
(***************************************************************************)
C16_SuccessIffNothingIrreparable ==
    /\ GotBody =>
          IF Irreparable = <<>>
          THEN /\ http_response.code = SUCCESSES
               /\ PayloadText = json_dumps(NullsRepaired(Received, UsedSchema))
          ELSE /\ http_response.code = RESPONSE_SCHEMA_VALIDATE_ERR
               /\ http_response.message =
                     <<"RESPONSE_SCHEMA_VALIDATE_ERR.msg">> \o join_msgs(Irreparable)
    /\ (Returned /\ http_response.code # SUCCESSES) =>
          http_response.payload = EmptyDict

\* the outcome of validate-and-repair with the document it left written out
WrittenOut(run) == [run EXCEPT !.result_json = resolve(run.result_json, run.table)]

\* validate-and-repair of the received document, as DoCall ran it
FirstRun == WrittenOut(validate_response_schema(Received, tool.open_api_schema,
                                              ImportedDefaults))

\* validate-and-repair run again on the document the first run left
SecondRun == WrittenOut(validate_response_schema(FirstRun.result_json, tool.open_api_schema,
                                               FirstRun.table))

\* the first run ended without a fault and without an irreparable message
Accepted == ~FirstRun.raised /\ FirstRun.er_msgs = <<>>

(***************************************************************************)
(* C17.  Repair is idempotent: when validate-and-repair accepted and       *)
(* repaired a document, running it again on the repaired document gives    *)
(* the same document and no irreparable message.                           *)
(***************************************************************************)
C17_RepairIdempotent ==
    (GotBody /\ Accepted) =>
        /\ ~SecondRun.raised
        /\ SecondRun.er_msgs = <<>>
        /\ SecondRun.result_json = FirstRun.result_json

\* http_run is over: it returned, or an exception left it
Over == http_pc \in {"done", "raised"}

(***************************************************************************)
(* C18.  No exception escapes an entry point: every failure path ends with *)
(* a response envelope that carries a code and a message; in particular a  *)
(* registry lookup that fails or a stored document that cannot be parsed   *)
(* gives an error result of http_run.                                      *)
(***************************************************************************)
C18_NoExceptionEscapes ==
    Over =>
        /\ http_pc = "done"
        /\ http_response # NoHttpResponse
        /\ http_response.message # <<>>

\* a handler was called and its telemetry was to be delivered
HandlerCalled == otlp_enable /\ intended # NoHttpResponse

(***************************************************************************)
(* C19.  A failure to deliver telemetry (the metrics counter or the Kafka  *)
(* send raising) never affects the result: with telemetry enabled, the     *)
(* invocation returns the envelope that it returns when the delivery       *)
(* succeeds.                                                               *)
(***************************************************************************)
C19_TelemetryFailureChangesNothing ==
    (Over /\ HandlerCalled) =>
        /\ http_pc = "done"
        /\ http_response = intended

\* the steps before the outbound call all succeed for this request: request
\* validation, schema resolution, fragment decoding and auth injection
EarlierStepsSucceed ==
    /\ api_validate(run_params) = ""
    /\ stored.outcome = "rows" /\ stored.flaw = ""
    /\ run_params.parameter.operation_id \in DOMAIN schema_parser(stored.doc)
    /\ ~Decoded.raised
    /\ process_authentication(
           schema_parser(stored.doc)[run_params.parameter.operation_id],
           Decoded.message_header, Decoded.message_query).raised = <<>>

\* the outbound call came back with an exception
CallFailed == call_result.raised \in {"SparkLinkBaseException", "Exception"}

\* one step of http_run: the position moves to the next step or to the end,
\* a step starts only with the output of the one before, the call is
\* started once, by the step after auth injection, and nothing is sent once
\* the call came back
StepInOrder ==
    /\ <<http_pc, http_pc'>> \in
          {<<"validate", "resolve">>, <<"resolve", "execute">>,
           <<"execute", "do_call">>}
          \cup ({"validate", "resolve", "execute", "do_call"} \X {"done", "raised"})
    /\ http_pc' = "resolve" => params' # NoParams
    /\ http_pc' = "execute" => tool' # NoTool
    /\ http_pc' = "do_call" => (sent = <<>> /\ sent' = <<http_inst'>>)
    /\ sent' # sent => (http_pc = "execute" /\ http_pc' = "do_call")
    /\ call_result' # call_result => (http_pc = "do_call" /\ call_result = NoResult)
    /\ call_result # NoResult => sent' = sent

\* at most one call, exactly one when the earlier steps succeed and none
\* otherwise, and no response validation after a failed call
CallMadeOnce ==
    /\ Len(sent) <= 1
    /\ (http_pc \in {"do_call", "done", "raised"} /\ EarlierStepsSucceed)
          <=> Len(sent) = 1
    /\ (Over /\ ~EarlierStepsSucceed) => (sent = <<>> /\ call_result = NoResult)
    /\ (Returned /\ CallFailed) =>
          http_response \in
              {handle_sparklink_error([code |-> SparkLinkCode, message |-> "err.message"]),
               handle_general_exception(<<"do_call error">>)}

(***************************************************************************)
(* C20.  Within one http_run invocation request validation, schema         *)
(* resolution, fragment decoding and auth injection, outbound call and     *)
(* response validation happen in that order, each only after the previous  *)
(* one succeeded; the outbound call is made exactly once when all earlier  *)
(* steps succeed and not at all otherwise, it is never retried after a     *)
(* failure, and response validation is not run when the call failed.       *)
(***************************************************************************)
C20_StepsInOrderOneCall == [][StepInOrder]_vars /\ []CallMadeOnce

C20_Witness ==
    /\ Returned /\ EarlierStepsSucceed
    /\ Len(sent) = 1
    /\ call_result.raised = ""
    /\ http_response.code = SUCCESSES

\* the caller payload fails the validation of the request schema
Malformed == api_validate(run_params) # ""

(***************************************************************************)
(* C21.  If the caller payload of http_run fails request-schema validation *)
(* the invocation returns RequestMalformed (JSON_PROTOCOL_PARSER_ERR) with *)
(* an empty payload at once: the registry is not queried, no fragment is   *)
(* decoded and no outbound call is made.                                   *)
(***************************************************************************)
C21_MalformedReturnsAtOnce ==
    Malformed =>
        /\ http_pc \in {"validate", "done"}
        /\ params = NoParams
        /\ tool = NoTool
        /\ http_inst = NoHttpRun
        /\ sent = <<>>
        /\ call_result = NoResult
        /\ Returned =>
              /\ http_response.code = JSON_PROTOCOL_PARSER_ERR
              /\ http_response.message = <<api_validate(run_params)>>
              /\ http_response.payload = EmptyDict

C21_Witness ==
    /\ Malformed /\ Returned
    /\ stored.outcome = "rows"
    /\ http_response.code = JSON_PROTOCOL_PARSER_ERR
    /\ tool = NoTool
    /\ sent = <<>>

\* the registry has no tool for the request
NoSuchTool == ~Malformed /\ stored.outcome = "no_rows"

\* the registry has the tool, and its document has no operation of the
\* requested operation_id
NoSuchOperation ==
    /\ ~Malformed
    /\ stored.outcome = "rows" /\ stored.flaw = ""
    /\ run_params.parameter.operation_id \notin DOMAIN schema_parser(stored.doc)

(***************************************************************************)
(* C22.  http_run tells a missing tool from a missing operation: the       *)
(* result is ToolNotFound (TOOL_NOT_EXIST_ERR), with a message naming the  *)
(* tool_id, exactly when the registry has no tool, and OperationNotFound   *)
(* (OPERATION_ID_NOT_EXIST_ERR), with a message naming the operation_id,   *)
(* exactly when the tool has no such operation; in both cases no outbound  *)
(* call is made.                                                           *)
(***************************************************************************)
C22_MissingToolNotMissingOperation ==
    /\ (Over /\ NoSuchTool) =>
          /\ Returned
          /\ http_response.code = TOOL_NOT_EXIST_ERR
          /\ has_piece(http_response.message, run_params.parameter.tool_id)
          /\ http_response.payload = EmptyDict
    /\ (Over /\ NoSuchOperation) =>
          /\ Returned
          /\ http_response.code = OPERATION_ID_NOT_EXIST_ERR
          /\ has_piece(http_response.message, run_params.parameter.operation_id)
          /\ http_response.payload = EmptyDict
    /\ (NoSuchTool \/ NoSuchOperation) =>
          (sent = <<>> /\ http_pc \in {"validate", "resolve", "done"})
    /\ Returned =>
          /\ http_response.code = TOOL_NOT_EXIST_ERR <=> NoSuchTool
          /\ http_response.code = OPERATION_ID_NOT_EXIST_ERR <=> NoSuchOperation

C22_Witness ==
    /\ Returned /\ NoSuchOperation
    /\ http_response.code = OPERATION_ID_NOT_EXIST_ERR
    /\ has_piece(http_response.message, "noSuchOp")
    /\ sent = <<>>

(***************************************************************************)
(* Reading the answer of the MCP server to a tool call                     *)
(***************************************************************************)
\* session.call_tool came back with a result
ToolCallCameBack == ~IsToolList /\ Made("call_tool", "ok")

\* ... this one
ServerResult ==
    LET n == CHOOSE n \in 1..Len(calls) :
                 calls[n].c = "call_tool" /\ calls[n].res = "ok"
    IN  calls[n].call_dict

\* leaving the session or the transport raised
TeardownRaised ==
    \/ Made("ClientSession.__aexit__", "raise")
    \/ Made("sse_client.__aexit__", "raise")

\* the parts of the result in the server's order: a text part for a part of
\* type text, an image part (data and mime type) for a part of type image,
\* nothing for a part of another type
RECURSIVE ExpectedParts(_)
ExpectedParts(content) ==
    IF content = <<>> THEN <<>>
    ELSE LET data == Head(content)
         IN  (CASE data.type = "text" ->
                      <<[kind |-> "MCPTextResponse", text |-> data.text]>>
                [] data.type = "image" ->
                      <<[kind |-> "MCPImageResponse", data |-> data.data,
                         mineType |-> data.mimeType]>>
                [] OTHER -> <<>>)
             \o ExpectedParts(Tail(content))

(***************************************************************************)
(* C23.  On a successful call_tool the result carries the server's         *)
(* is_error flag and, in the server's order, a text part for every part of *)
(* type text and an image part (data and mime type) for every part of type *)
(* image; parts of another type are dropped, and a result with image parts *)
(* or unknown parts still yields Success.                                  *)
(***************************************************************************)
C23_ContentMappedByType ==
    (pc = "done" /\ ToolCallCameBack /\ ~TeardownRaised) =>
        /\ response.code = SUCCESSES
        /\ response.isError = ServerResult.isError
        /\ response.content.parts = ExpectedParts(ServerResult.content)

\* the registry was asked for the target
Looked == \E n \in 1..Len(calls) : calls[n].c = "get_tools"

\* what the registry lookup of a server id ends with when it fails
ResolutionError(mcp_server_id) ==
    CASE mcp_server_id = "" -> MCP_SERVER_ID_EMPTY_ERR
      [] get_tools(mcp_server_id).raised -> MCP_CRUD_OPERATION_FAILED_ERR
      [] get_tools(mcp_server_id).rows = <<>> -> MCP_SERVER_NOT_FOUND_ERR
      [] \A n \in 1..Len(get_tools(mcp_server_id).rows) :
            \/ get_tools(mcp_server_id).rows[n].tool_id # mcp_server_id
            \/ get_tools(mcp_server_id).rows[n].mcp_server_url = ""
                                         -> MCP_SERVER_URL_EMPTY_ERR
      [] OTHER -> SUCCESSES

\* the target is given by server id only and its resolution fails
Unresolved ==
    Served /\ ~IsDirect(cur.t) /\ ResolutionError(TargetId(cur.t)) # SUCCESSES

(***************************************************************************)
(* C24.  A target given as a direct url never consults the registry (in    *)
(* call_tool also when a server id comes with the url); a target given by  *)
(* server id only is resolved through the registry, and when the id is     *)
(* empty, the lookup fails, no record matches or the stored url is empty,  *)
(* the invocation (or batch entry) ends with the error of that case,       *)
(* without a verdict of the security gate and without opening a transport. *)
(***************************************************************************)
C24_DirectSkipsRegistryUnresolvedStops ==
    Served =>
        /\ IsDirect(cur.t) => ~Looked
        /\ (~IsDirect(cur.t) /\ TargetId(cur.t) # "") => Looked
        /\ Unresolved =>
              /\ ~Connecting
              /\ ~transportOpen /\ ~sessionOpen
              /\ pc \in {"loop", "done"}
              /\ HasResult
              /\ ResultCode = ResolutionError(TargetId(cur.t))
              /\ ResultCode \notin {MCP_SERVER_LOCAL_URL_ERR,
                                    MCP_SERVER_BLACKLIST_URL_ERR}

C24_Witness ==
    /\ Unresolved /\ HasResult
    /\ TargetId(cur.t) = IdOther
    /\ Looked
    /\ ResultCode = MCP_SERVER_URL_EMPTY_ERR
    /\ ~Connecting

(***************************************************************************)
(* Concurrent MCP invocations.  Each task runs _connect_and_get_tools      *)
(* (lines 90-158) once per target of its batch, or _call_mcp_tool (lines   *)
(* 319-375) once; the event loop may switch tasks at every await.          *)
(***************************************************************************)
NTasks == 2
MaxBatch == 2
Tasks == 1..NTasks
MaxObjects == 2 * NTasks * MaxBatch

\* tool_list with its number of targets that pass the gate, or call_tool
TaskKinds ==
    {[op |-> "tool_list", targets |-> n] : n \in 1..MaxBatch}
    \cup {[op |-> "call_tool", targets |-> 1]}

NewTask(kind) ==
    [op |-> kind.op, targets |-> kind.targets, t |-> 0, pc |-> "next",
     transport |-> 0, session |-> 0]

\* `async with sse_client(url=url)` and `async with ClientSession(read, write)`
\* with a session that the module would keep and hand to every caller
new_session_shared(n) == 1

\* `async with sse_client(url=url) as (read, write)`: a transport of its own
new_transport(n) == n + 1

\* `async with ClientSession(read, write, ...) as session`: a session of its own
new_session(n) == n + 1

Use(i, kind, obj) == [task |-> i, target |-> tasks[i].t, kind |-> kind, obj |-> obj]

TasksInit ==
    /\ tasks \in [Tasks -> {NewTask(kind) : kind \in TaskKinds}]
    /\ created = 0
    /\ uses = {}
    /\ session_ops = [obj \in 1..MaxObjects |-> <<>>]
    /\ McpIdle
    /\ HttpIdle

\* the loop of tool_list takes its next target, or the invocation returns
TaskNextTarget(i) ==
    /\ tasks[i].pc = "next"
    /\ tasks' = [tasks EXCEPT ![i] =
                    IF @.t < @.targets
                    THEN [@ EXCEPT !.t = @ + 1, !.pc = "connect"]
                    ELSE [@ EXCEPT !.pc = "done"]]
    /\ UNCHANGED <<created, uses, session_ops>>
    /\ UNCHANGED <<mcpVars, httpVars>>

\* line 95 / 333: sse_client connects, or raises (line 150 / 370)
TaskConnect(i) ==
    /\ tasks[i].pc = "connect"
    /\ \/ /\ tasks' = [tasks EXCEPT ![i].transport = new_transport(created),
                                    ![i].pc = "session"]
          /\ created' = created + 1
          /\ uses' = uses \cup {Use(i, "transport", new_transport(created))}
       \/ /\ tasks' = [tasks EXCEPT ![i].pc = "next"]
          /\ UNCHANGED <<created, uses>>
    /\ UNCHANGED session_ops
    /\ UNCHANGED <<mcpVars, httpVars>>

\* line 97 / 335: ClientSession is entered, or raises (line 141 / 364)
TaskOpenSession(i) ==
    /\ tasks[i].pc = "session"
    /\ \/ /\ tasks' = [tasks EXCEPT ![i].session = new_session(created),
                                    ![i].pc = "init"]
          /\ created' = created + 1
          /\ uses' = uses \cup {Use(i, "session", new_session(created)),
                                Use(i, "transport", tasks[i].transport)}
       \/ /\ tasks' = [tasks EXCEPT ![i].pc = "exit_transport"]
          /\ UNCHANGED <<created, uses>>
    /\ UNCHANGED session_ops
    /\ UNCHANGED <<mcpVars, httpVars>>

\* line 99 / _initialize_session: session.initialize() returns or raises
TaskInitialize(i) ==
    /\ tasks[i].pc = "init"
    /\ session_ops' = [session_ops EXCEPT ![tasks[i].session] =
                          Append(@, "initialize")]
    /\ uses' = uses \cup {Use(i, "session", tasks[i].session)}
    /\ \E ok \in BOOLEAN :
          tasks' = [tasks EXCEPT ![i].pc = IF ok THEN "op" ELSE "exit_session"]
    /\ UNCHANGED created
    /\ UNCHANGED <<mcpVars, httpVars>>

\* line 110: session.list_tools(), or line 297: session.call_tool(...)
TaskOperation(i) ==
    /\ tasks[i].pc = "op"
    /\ session_ops' = [session_ops EXCEPT ![tasks[i].session] =
                          Append(@, IF tasks[i].op = "tool_list"
                                    THEN "list_tools" ELSE "call_tool")]
    /\ uses' = uses \cup {Use(i, "session", tasks[i].session)}
    /\ tasks' = [tasks EXCEPT ![i].pc = "exit_session"]
    /\ UNCHANGED created
    /\ UNCHANGED <<mcpVars, httpVars>>

\* the ClientSession scope is left
TaskExitSession(i) ==
    /\ tasks[i].pc = "exit_session"
    /\ tasks' = [tasks EXCEPT ![i].session = 0, ![i].pc = "exit_transport"]
    /\ UNCHANGED <<created, uses, session_ops>>
    /\ UNCHANGED <<mcpVars, httpVars>>

\* the sse_client scope is left
TaskExitTransport(i) ==
    /\ tasks[i].pc = "exit_transport"
    /\ tasks' = [tasks EXCEPT ![i].transport = 0, ![i].pc = "next"]
    /\ UNCHANGED <<created, uses, session_ops>>
    /\ UNCHANGED <<mcpVars, httpVars>>

TasksNext ==
    \E i \in Tasks :
        \/ TaskNextTarget(i)
        \/ TaskConnect(i)
        \/ TaskOpenSession(i)
        \/ TaskInitialize(i)
        \/ TaskOperation(i)
        \/ TaskExitSession(i)
        \/ TaskExitTransport(i)

SpecSessions == TasksInit /\ [][TasksNext]_vars

\* the requests made on a session after initialize
AfterInitialize(obj) ==
    SelectSeq(session_ops[obj], LAMBDA c : c # "initialize")

(***************************************************************************)
(* C25.  Sessions are per invocation: every call_tool invocation and every *)
(* target of a tool_list batch opens its own transport and session; under  *)
(* any interleaving no session or transport is used by more than one       *)
(* invocation or target, and each session performs at most one operation   *)
(* after initialize, list_tools or call_tool, never both and never twice.  *)
(***************************************************************************)
C25_SessionsPerInvocation ==
    /\ \A u1, u2 \in uses :
          (u1.kind = u2.kind /\ u1.obj = u2.obj) =>
              (u1.task = u2.task /\ u1.target = u2.target)
    /\ \A i, j \in Tasks :
          (i # j /\ tasks[i].session # 0) => tasks[i].session # tasks[j].session
    /\ \A i, j \in Tasks :
          (i # j /\ tasks[i].transport # 0) => tasks[i].transport # tasks[j].transport
    /\ \A obj \in 1..MaxObjects :
          /\ Len(AfterInitialize(obj)) <= 1
          /\ Len(SelectSeq(session_ops[obj], LAMBDA c : c = "initialize")) <= 1

C25_Witness ==
    /\ \A i \in Tasks : tasks[i].pc = "done"
    /\ tasks[1].op = "tool_list" /\ tasks[1].targets = 2
    /\ tasks[2].op = "call_tool"
    /\ Cardinality({u.obj : u \in {v \in uses : v.kind = "session"}}) = 3
    /\ \E obj \in 1..MaxObjects : session_ops[obj] = <<"initialize", "call_tool">>
    /\ \E obj \in 1..MaxObjects : session_ops[obj] = <<"initialize", "list_tools">>

(***************************************************************************)
(* The process over its lifetime: http_run and tool_debug invocations one   *)
(* after another, all on the one table default_value of the module.  The table is read    *)
(* and written between two awaits only (validate_response_schema has       *)
(* none), so concurrent invocations reach it one at a time, in the order   *)
(* in which their do_call came back.                                       *)
(***************************************************************************)
\* tool_debug_params.dict(): the document comes with the request, and so do
\* the server, the method and the fragments (here: none)
DebugRequests ==
    {[wellformed |-> w, parameter |-> NoParams, payload |-> [message |-> EmptyDict]] :
        w \in BOOLEAN}

\* tool_debug_params.openapi_schema: the text of a document, or a text that
\* lines 758-773 cannot read
DebugSchemas == {s \in StoredTools : s.outcome = "rows"}

\* lines 805-834, the part of tool_debug that process_http_result is for
\* http_run: the same statements, with handle_debug_success_response
debug_result(result, openapi_schema, table) ==
    validated(validate_response_schema(loaded_or_text(result, json_loads(result)),
                                       openapi_schema, table))

\* tool_debug, lines 740-845, from the request to the return.  Every
\* handler but the two of the except clauses is called inside the try.
ToolDebug ==
    /\ http_pc = "free"
    /\ \E request \in DebugRequests, schema \in DebugSchemas, out \in DoCallOutcomes :
          LET validate_err == api_validate(request)
              called == schema.flaw = "" /\ validate_err = ""
              processed == debug_result(out.result, schema.doc, default_value)
              in_try == validate_err # "" \/ (out.raised = "" /\ ~processed.raised)
              envelope ==
                  CASE validate_err # "" -> handle_validation_error(validate_err)
                    [] out.raised = "SparkLinkBaseException" ->
                          handle_sparklink_error(
                              [code |-> SparkLinkCode, message |-> "err.message"])
                    [] out.raised = "Exception" ->
                          handle_general_exception(<<"do_call error">>)
                    [] OTHER ->
                          IF processed.raised
                          THEN handle_general_exception(<<"repair fault">>)
                          ELSE processed.response
              debug_inst == [NoHttpRun EXCEPT !.server = PlainContract.server_url,
                                              !.method = PlainContract.method]
          IN  /\ run_params' = request
              /\ stored' = schema
              /\ params' = NoParams
              /\ IF schema.flaw # ""
                 THEN \* json.loads or .get("info").get raises before node_trace
                      \* is bound: the except clause of line 840 raises
                      \* UnboundLocalError on its arguments
                      /\ http_pc' = "raised"
                      /\ http_response' = NoHttpResponse
                      /\ intended' = NoHttpResponse
                      /\ tool' = NoTool
                 ELSE /\ \E first, second \in Deliveries :
                            LET end == IF in_try
                                       THEN handler_result_in_try(envelope, first, second)
                                       ELSE handler_result(envelope, first)
                            IN  /\ http_response' = end.response
                                /\ http_pc' = IF end.pc = "done" THEN "debugged" ELSE end.pc
                      /\ intended' = envelope
                      /\ tool' = [NoTool EXCEPT
                                    !.tool_type = IF schema.doc.official
                                                  THEN "OFFICIAL_TOOL" ELSE "THIRD_TOOL",
                                    !.open_api_schema = schema.doc]
              /\ http_inst' = IF called THEN debug_inst ELSE NoHttpRun
              /\ sent' = IF called THEN <<debug_inst>> ELSE <<>>
              /\ call_result' = IF called THEN out ELSE NoResult
              /\ default_value' = IF called /\ out.raised = "" THEN processed.table
                                  ELSE default_value
    /\ UNCHANGED otlp_enable
    /\ UNCHANGED <<mcpVars, taskVars>>

\* the requests the process is followed on: of every kind as to
\* validation, decoding and the operation asked for
ProcessRequests ==
    {r \in HttpRunRequests :
        /\ r.parameter.version = "V2.0"
        /\ r.payload.message \in {EmptyDict, ("header" :> BadBase64)}}

ProcessInit == HttpInit /\ run_params \in ProcessRequests

\* the invocation is over: its locals are discarded, what the module holds
\* stays
Discard ==
    /\ http_pc \in {"done", "raised", "debugged"}
    /\ http_pc' = "free"
    /\ run_params' = PyNone
    /\ stored' = PyNone
    /\ params' = NoParams
    /\ tool' = NoTool
    /\ http_inst' = NoHttpRun
    /\ sent' = <<>>
    /\ call_result' = NoResult
    /\ http_response' = NoHttpResponse
    /\ intended' = NoHttpResponse
    /\ UNCHANGED <<otlp_enable, default_value>>
    /\ UNCHANGED <<mcpVars, taskVars>>

\* the next http_run request arrives
NextInvocation ==
    /\ http_pc = "free"
    /\ run_params' \in ProcessRequests
    /\ stored' \in StoredTools
    /\ http_pc' = "validate"
    /\ UNCHANGED <<params, tool, http_inst, sent, call_result, http_response,
                   intended, otlp_enable, default_value>>
    /\ UNCHANGED <<mcpVars, taskVars>>

ProcessNext ==
    \/ HttpNext
    \/ ToolDebug
    \/ Discard
    \/ NextInvocation

SpecProcess == ProcessInit /\ [][ProcessNext]_vars

\* what the invocation returns in a process that has served no other
FromInputsAlone ==
    process_http_result(call_result.result, tool.open_api_schema, ImportedDefaults)

(***************************************************************************)
(* C26.  No invocation changes state that another one reads: the table of  *)
(* repair defaults, with the one empty dict and the one empty list it      *)
(* hands out, stays as the import left it, and the envelope returned for a *)
(* received body is the one its inputs alone determine.                    *)
(***************************************************************************)
C26_DefaultsNeverChange ==
    /\ default_value = ImportedDefaults
    /\ (GotBody /\ ~FromInputsAlone.raised) => http_response = FromInputsAlone.response

\* no operation of the resolved document declares a response schema
DeclaresNoSchema ==
    \A n \in 1..Len(tool.open_api_schema.operations) :
        tool.open_api_schema.operations[n].response_schema = NoSchema

\* http_run returned Success with the given text as payload
SuccessWith(text) ==
    /\ http_response.code = SUCCESSES
    /\ http_response.payload = [text |-> [text |-> text]]

(***************************************************************************)
(* C27 as stated.  Without a declared response schema the invocation       *)
(* returns Success with the body as it was received.                       *)
(***************************************************************************)
C27_NoSchemaBodyUntouched ==
    (GotBody /\ DeclaresNoSchema) => SuccessWith(call_result.result)

(***************************************************************************)
(* C27.  Without a declared response schema validation is skipped: for     *)
(* every body no violation is found, nothing is repaired, and the          *)
(* invocation returns Success; the payload is the received value (the      *)
(* decoded body, or the raw text when the body is not JSON) written by     *)
(* json.dumps.                                                             *)
(***************************************************************************)
C27_NoSchemaSkipsValidation ==
    (GotBody /\ DeclaresNoSchema) =>
        /\ Violations = <<>>
        /\ ~FirstRun.raised
        /\ FirstRun.result_json = Received
        /\ default_value = ImportedDefaults
        /\ SuccessWith(json_dumps(Received))

C27_Witness ==
    /\ GotBody
    /\ DeclaresNoSchema
    /\ call_result.result = "null"
    /\ SuccessWith("null")

\* do_call returned a body to http_run or to tool_debug, which returned its
\* envelope
BodyHandled ==
    /\ http_pc \in {"done", "debugged"}
    /\ sent # <<>>
    /\ call_result.raised = ""

\* json.loads rejects the body
NotJson == json_loads(call_result.result).raised

\* what the validator finds in the raw text taken as a string value
FoundInText == iter_errors(JStr(call_result.result), UsedSchema, <<"$">>)

(***************************************************************************)
(* C28 as stated.  A body that is not JSON is validated as it is and, when *)
(* nothing is found, is the text of the Success payload.                   *)
(***************************************************************************)
C28_TextPassedThroughAsIs ==
    (BodyHandled /\ NotJson /\ FoundInText = <<>>) => SuccessWith(call_result.result)

(***************************************************************************)
(* C28.  A body that is not JSON is not rejected for that: the raw text is *)
(* validated as a string value against the response schema; when nothing   *)
(* is found the result is Success and the payload is the text written by   *)
(* json.dumps (a JSON string literal); otherwise the result is the         *)
(* ResponseSchemaViolation that lists what was found.                      *)
(***************************************************************************)
C28_TextValidatedAsString ==
    (BodyHandled /\ NotJson) =>
        IF FoundInText = <<>>
        THEN SuccessWith(json_dumps(JStr(call_result.result)))
        ELSE http_response =
                handle_custom_error(RESPONSE_SCHEMA_VALIDATE_ERR,
                    <<"RESPONSE_SCHEMA_VALIDATE_ERR.msg">> \o join_msgs(FoundInText))

C28_Witness ==
    /\ BodyHandled
    /\ http_pc = "debugged"
    /\ NotJson
    /\ UsedSchema = TextSchema
    /\ SuccessWith("\"plain text\"")

FragmentNames == {"header", "query", "path", "body"}

\* the caller supplied no fragment under the name, or the empty text
Missing(name) ==
    \/ name \notin DOMAIN run_params.payload.message
    \/ run_params.payload.message[name] = EmptyText

\* the fragment the caller supplied under the name
Supplied(name) == run_params.payload.message[name]

\* what process_message_params makes of the fragment
DecodedOf(name) == decode_fragment(run_params.payload.message, name)

\* every character of the text is of the base64 alphabet and the text ends
\* on a whole group
ValidBase64(data) == \A n \in 1..Len(data) : data[n].kind = "group"

\* the fragment is a text that is not base64, or base64 of a text that is
\* not JSON
MalformedFragment(name) ==
    /\ ~Missing(name)
    /\ \/ ~ValidBase64(Supplied(name))
       \/ loads_dict(b64decode(Supplied(name)).tokens).raised

(***************************************************************************)
(* C29.  A fragment that is absent or empty decodes to the empty mapping;  *)
(* an object encoded as base64 JSON text decodes to that object, and is    *)
(* what the outbound request carries; with a fragment that is not valid    *)
(* base64 or not valid JSON no outbound call is made and the envelope      *)
(* returned is an error with an empty payload.                             *)
(***************************************************************************)
C29_FragmentsDecodeOrFail ==
    /\ \A name \in FragmentNames :
          Missing(name) =>
              DecodedOf(name) = [raised |-> FALSE, obj |-> EmptyDict]
    /\ \A name \in FragmentNames, obj \in FragmentObjects :
          (~Missing(name) /\ Supplied(name) = Encoded(obj)) =>
              DecodedOf(name) = [raised |-> FALSE, obj |-> obj]
    /\ Built => /\ sent[1].path = DecodedOf("path").obj
                /\ sent[1].body = DecodedOf("body").obj
    /\ (\E name \in FragmentNames : MalformedFragment(name)) =>
          /\ sent = <<>>
          /\ Returned => /\ http_response.code # SUCCESSES
                         /\ http_response.payload = EmptyDict

\* the operations of the resolved document that have the operation_id of
\* the request
RequestedOperations ==
    SelectSeq(tool.open_api_schema.operations,
              LAMBDA op : op.operationId = params.operation_id)

\* the resolved document with no operation but the requested one
RequestedAlone == [tool.open_api_schema EXCEPT !.operations = RequestedOperations]

(***************************************************************************)
(* C30.  The response is validated and repaired against the response       *)
(* schema of the operation that was invoked, wherever that operation       *)
(* stands in the document: the envelope is the one that the document with  *)
(* the requested operation alone gives.                                    *)
(***************************************************************************)
C30_SchemaOfRequestedOperation ==
    (GotBody /\ Len(RequestedOperations) = 1) =>
        /\ UsedSchema = RequestedOperations[1].response_schema
        /\ LET alone == process_http_result(call_result.result, RequestedAlone,
                                            ImportedDefaults)
           IN  ~alone.raised => http_response = alone.response

(***************************************************************************)
(* What the Success payload holds against the declared schema              *)
(***************************************************************************)
\* the operation declares a response schema
DeclaresSchema == UsedSchema # NoSchema

\* http_run returned Success for a body validated against a declared schema
SuccessUnderSchema ==
    GotBody /\ DeclaresSchema /\ http_response.code = SUCCESSES

\* the document of the payload text: what validate-and-repair left, which
\* json.dumps wrote out
PayloadDocument == FirstRun.result_json

\* the violations the validator finds in the document of the payload
PayloadViolations == iter_errors(PayloadDocument, UsedSchema, <<"$">>)

(***************************************************************************)
(* C31.  Whenever http_run returns Success for a tool with a declared      *)
(* response schema, the document in payload.text conforms to that schema:  *)
(* after repair no violation remains, the violations that the inserted     *)
(* defaults bring with them included.                                      *)
(***************************************************************************)
C31_SuccessPayloadConforms ==
    SuccessUnderSchema =>
        /\ PayloadText = json_dumps(PayloadDocument)
        /\ PayloadViolations = <<>>

(***************************************************************************)
(* Validate-and-repair as a total function                                 *)
(***************************************************************************)
\* the received document is null where the schema types the root
NullAtRoot == Received = JNull /\ "type" \in DOMAIN UsedSchema

\* the received document is an array at the root
ArrayAtRoot == Received.ty = "array"

\* the outcome is Valid or Invalid: the invocation returned Success or
\* ResponseSchemaViolation
ValidOrInvalid ==
    \/ http_response.code = SUCCESSES
    \/ /\ http_response.code = RESPONSE_SCHEMA_VALIDATE_ERR
       /\ http_response.message =
             <<"RESPONSE_SCHEMA_VALIDATE_ERR.msg">> \o join_msgs(FirstRun.er_msgs)

(***************************************************************************)
(* C32.  Validate-and-repair is total: for every decoded response value    *)
(* and every response schema it ends with Valid or with Invalid(list of    *)
(* path/message) and never with a fault, so that the invocation returns    *)
(* Success or ResponseSchemaViolation and not an unclassified error, also  *)
(* when the null is the whole response and when the response root is an    *)
(* array.                                                                  *)
(***************************************************************************)
C32_ValidateAndRepairTotal ==
    GotBody =>
        /\ ~FirstRun.raised
        /\ http_response.code # COMMON_ERR
        /\ ValidOrInvalid

(***************************************************************************)
(* What repair changes in the document                                     *)
(***************************************************************************)
\* validate-and-repair ended without a fault
RepairRan == GotBody /\ ~FirstRun.raised

\* a null of the received document is inside an array of arrays: its path
\* has a segment of the form name[i][j]
RECURSIVE has_nested_index(_)
has_nested_index(json_path) ==
    /\ Len(json_path) >= 2
    /\ \/ json_path[1] = "]" /\ json_path[2] = "["
       \/ has_nested_index(Tail(json_path))

NullInArrayOfArrays ==
    \E n \in 1..Len(Violations) :
        IsNullError(Violations[n]) /\ has_nested_index(Violations[n].json_path)

(***************************************************************************)
(* C33.  Repair changes only the offending null leaves: the repaired       *)
(* document differs from the decoded response exactly at the positions     *)
(* whose violation was a null where a type is required, and every other    *)
(* key, array element and value is unchanged, also when the null sits in   *)
(* an array of arrays (path segment name[i][j]).                           *)
(***************************************************************************)
C33_RepairChangesOnlyNullLeaves ==
    RepairRan => FirstRun.result_json = NullsRepaired(Received, UsedSchema)

(***************************************************************************)
(* The result of an MCP target against the teardown of its scopes          *)
(***************************************************************************)
\* connect, session establishment, initialize and the operation succeeded,
\* and the result of the operation was built (lines 110-129, 353-363)
ObtainedResult ==
    /\ Made("sse_client", "ok")
    /\ Made("ClientSession", "ok")
    /\ Made("initialize", "ok")
    /\ Made(OpName, "ok")
    /\ ~IsToolList => ~map_content(ServerResult.content).raised

\* the catalog session.list_tools came back with
ServerCatalog ==
    LET n == CHOOSE n \in 1..Len(calls) :
                 calls[n].c = "list_tools" /\ calls[n].res = "ok"
    IN  calls[n].tools

\* the error that initialize or the operation had determined
DeterminedError == FailedPhase \in {"init", "op"}

(***************************************************************************)
(* C34.  A result obtained successfully is returned as success: when       *)
(* connect, session establishment, initialize and list_tools / call_tool   *)
(* all succeeded, the returned status is Success with the obtained tools / *)
(* content even if releasing the session or the transport raises; and an   *)
(* InitError, ToolListError or CallToolError already determined is not     *)
(* replaced by SessionError or ConnectError because teardown failed.       *)
(***************************************************************************)
C34_TeardownKeepsResult ==
    /\ (HasResult /\ ObtainedResult) =>
          /\ ResultCode = SUCCESSES
          /\ IsToolList => items[Len(items)].tools = tool_infos(ServerCatalog)
          /\ ~IsToolList =>
                response.content.parts = map_content(ServerResult.content).parts
    /\ (HasResult /\ DeterminedError) => ResultCode = PhaseError(FailedPhase)

(***************************************************************************)
(* The security gate through the two entry points                          *)
(***************************************************************************)
\* the gate of the entry point has given its verdict on the direct url of
\* the target: the target was rejected, or it went on to sse_client
GateDecided ==
    /\ Served
    /\ IsDirect(cur.t)
    /\ ~IsBlankTarget(cur.t)
    /\ HasResult \/ pc = "connect"

\* the verdict: the rejection kind, or SUCCESSES for a url let through
GateVerdict == IF Connecting \/ pc = "connect" THEN SUCCESSES ELSE ResultCode

\* the verdict of the other entry point on the same direct url
OtherGateVerdict ==
    IF IsToolList
    THEN validate_and_get_url([mcp_server_id |-> "",
                               mcp_server_url |-> TargetUrl(cur.t)]).err
    ELSE gate_by_url(TargetUrl(cur.t)).err

(***************************************************************************)
(* C35.  The security gate gives the same verdict through both MCP entry   *)
(* points: for every direct url, tool_list and call_tool reject it with    *)
(* the same error kind or both let it through; a direct url that is both   *)
(* local and blacklisted gets the same rejection kind from both.           *)
(***************************************************************************)
C35_SameVerdictThroughBothEntryPoints ==
    GateDecided => GateVerdict = OtherGateVerdict

(***************************************************************************)
(* The declared credential against the caller's fragments                  *)
(***************************************************************************)
\* the caller's fragment holds the declared auth name with a value of its own
CallerSupplies(fragment) ==
    /\ AuthName \in DOMAIN fragment
    /\ fragment[AuthName] # AuthValue

\* the request that went out holds the declared value under the declared
\* name in the fragment
DeclaredValueSent(fragment) ==
    /\ AuthName \in DOMAIN fragment
    /\ fragment[AuthName] = AuthValue

(***************************************************************************)
(* C36.  The caller cannot override the declared credential: for every     *)
(* contract with an apiKey scheme and every caller-supplied header and     *)
(* query, whenever an outbound call is made the value sent under the       *)
(* declared auth name at the declared location is the contract's declared  *)
(* value, also when the caller supplied another value under that name in   *)
(* that fragment.                                                          *)
(***************************************************************************)
C36_CallerCannotOverrideCredential ==
    /\ (Built /\ ApiKeyAt("header")) => DeclaredValueSent(sent[1].header)
    /\ (Built /\ ApiKeyAt("query")) => DeclaredValueSent(sent[1].query)

\* a call went out for a caller that had put its own value under the
\* declared name into the query, and the declared value was sent
C36_Witness ==
    /\ Built
    /\ ApiKeyAt("query")
    /\ CallerSupplies(Decoded.message_query)
    /\ DeclaredValueSent(sent[1].query)
    /\ sent[1].header = Decoded.message_header

====
